---- MODULE Spec2Model ----
(***************************************************************************)
(* Transactional storage session of the Move VM host adapter (mvm crate): *)
(* the resolver chain chain-context -> bank -> byte store, the write path  *)
(* that routes resource effects either to the bank or to the byte store,   *)
(* the balance-handler cache and the host bank ledger.                     *)
(***************************************************************************)
EXTENDS Integers, Sequences, FiniteSets, TLC

VARIABLES store, host, handlers, sessions, events, last, steps, panicked

vars == <<store, host, handlers, sessions, events, last, steps, panicked>>

(***************************************************************************)
(* Bounds of the model.                                                    *)
(***************************************************************************)
MaxSteps == 3
MaxSessions == 2
MaxTx == 2

(***************************************************************************)
(* Option, Result and ResolverResult values.                               *)
(***************************************************************************)
None == <<>>
Some(x) == <<x>>

Ok(x) == [ok |-> TRUE, val |-> x, err |-> "EXECUTED"]
Err(e) == [ok |-> FALSE, val |-> None, err |-> e]

Unresolved == <<>>
Resolved(r) == <<r>>

INTERNAL_TYPE_ERROR == "INTERNAL_TYPE_ERROR"
UNKNOWN_INVARIANT_VIOLATION_ERROR == "UNKNOWN_INVARIANT_VIOLATION_ERROR"

(***************************************************************************)
(* Addresses, identifiers and tags.                                        *)
(***************************************************************************)
CORE_CODE_ADDRESS == 1
A22 == 34
Addresses == {CORE_CODE_ADDRESS, A22}

ACCOUNT_MODULE == "Account"
BALANCE_STRUCT == "Balance"
DFI_MODULE == "Dfinance"
T_STRUCT == "T"

StructTag(a, m, n, tps) == [address |-> a, module |-> m, name |-> n, type_params |-> tps]
TStruct(st) == [k |-> "Struct", st |-> st]
TPrim(k) == [k |-> k]
TVector(e) == [k |-> "Vector", e |-> e]

NoTag == StructTag(0, "", "", <<>>)

TIMESTAMP_MODULE == StructTag(CORE_CODE_ADDRESS, "Timestamp", "CurrentTimeMicroseconds", <<>>)
BLOCK_MODULE == StructTag(CORE_CODE_ADDRESS, "Block", "BlockMetadata", <<>>)

Currency(a, m, n) == TStruct(StructTag(a, m, n, <<>>))
USD == Currency(CORE_CODE_ADDRESS, DFI_MODULE, "USD")
BTC == Currency(CORE_CODE_ADDRESS, DFI_MODULE, "BTC")

balance(ticker) == StructTag(CORE_CODE_ADDRESS, ACCOUNT_MODULE, BALANCE_STRUCT,
                             <<Currency(CORE_CODE_ADDRESS, DFI_MODULE, ticker)>>)
BalanceOf(tps) == StructTag(CORE_CODE_ADDRESS, ACCOUNT_MODULE, BALANCE_STRUCT, tps)

StoreU64Tag == StructTag(CORE_CODE_ADDRESS, "Store", "U64", <<>>)
Lock3Tag == StructTag(CORE_CODE_ADDRESS, "BalanceTest", "Lock3", <<USD>>)

Tickers == {"USD", "BTC"}

\* Well-formed balance tags.
BalanceTags == {balance(t) : t \in Tickers}

\* Tags that share part of the shape of a balance tag.
NearBalanceTags ==
    { BalanceOf(<<TPrim("U8")>>),
      BalanceOf(<<TPrim("U128")>>),
      BalanceOf(<<TVector(TPrim("U8"))>>),
      BalanceOf(<<TVector(USD)>>),
      BalanceOf(<<>>),
      BalanceOf(<<USD, BTC>>),
      BalanceOf(<<Currency(CORE_CODE_ADDRESS, "Other", "USD")>>),
      BalanceOf(<<Currency(A22, DFI_MODULE, "USD")>>),
      StructTag(A22, ACCOUNT_MODULE, BALANCE_STRUCT, <<USD>>),
      StructTag(CORE_CODE_ADDRESS, "Other", BALANCE_STRUCT, <<USD>>),
      StructTag(CORE_CODE_ADDRESS, ACCOUNT_MODULE, "Other", <<USD>>) }

\* Tags of the resources the loaded modules define.
Tags == BalanceTags \cup {BalanceOf(<<TPrim("U8")>>),
                          TIMESTAMP_MODULE, BLOCK_MODULE, StoreU64Tag, Lock3Tag}

\* Every tag shape the resolvers are probed with; ETH is a currency of the
\* Dfinance module no host account exists for.
AllTags == Tags \cup NearBalanceTags \cup {balance("ETH")}

(***************************************************************************)
(* Finite maps (HashMap) with a dynamic domain.                            *)
(***************************************************************************)
EmptyMap == [x \in {} |-> 0]
MapGet(m, k) == IF k \in DOMAIN m THEN Some(m[k]) ELSE None
MapPut(m, k, v) == [x \in (DOMAIN m) \cup {k} |-> IF x = k THEN v ELSE m[x]]
MapRemove(m, k) == [x \in (DOMAIN m) \ {k} |-> m[x]]

(***************************************************************************)
(* Byte encodings.                                                         *)
(***************************************************************************)
RECURSIVE to_le_bytes(_, _)
\* n.to_le_bytes() of an unsigned integer of `width` bytes.
to_le_bytes(n, width) ==
    IF width = 0 THEN <<>>
    ELSE <<n % 256>> \o to_le_bytes(n \div 256, width - 1)

U64_BYTES == 8
U128_BYTES == 16

\* AccountAddress::to_u8: the bytes of an address.
to_u8(address) == <<address>>

RESOURCE_TAG == 1
CODE_TAG == 0

\* StructTag::access_vector: a discriminant byte, then the canonical
\* encoding of the tag (one element stands for the encoded tag).
access_vector(tag) == <<RESOURCE_TAG, tag>>

\* ModuleId and ModuleId::access_vector.
ModuleId(address, name) == [address |-> address, name |-> name]
module_access_vector(id) == <<CODE_TAG, id>>

AccessPath(address, path) == [address |-> address, path |-> path]

\* The flat byte-store key of an access path: address bytes, then the path.
KeyOf(path) == to_u8(path.address) \o path.path

(***************************************************************************)
(* Byte store adapter (DataAccess over RawData).                           *)
(***************************************************************************)
RawGet(st, key) == MapGet(st, key)
RawInsert(st, key, value) == MapPut(st, key, value)
RawRemove(st, key) == MapRemove(st, key)

\* Mutant: the address is left out of the key.
get_by_path_no_address(st, path) == RawGet(st, path.path)

get_by_path(st, path) == RawGet(st, KeyOf(path))

\* AccessPath::resource_access_path(ResourceKey::new(address, tag)).
resource_access_path(address, tag) == AccessPath(address, access_vector(tag))

\* Mutant: a resource is looked up under the code path of its tag.
DataAccess_get_resource_as_module(st, address, tag) ==
    Ok(get_by_path(st, AccessPath(address, <<CODE_TAG, tag>>)))

DataAccess_get_resource(st, address, tag) ==
    Ok(get_by_path(st, resource_access_path(address, tag)))

\* AccessPath::from(&ModuleId): the module's address and its access vector.
module_access_path(id) == AccessPath(id.address, module_access_vector(id))

\* Mutant: a module is looked up under the resource path of its name.
DataAccess_get_module_as_resource(st, id) ==
    Ok(get_by_path(st, AccessPath(id.address, <<RESOURCE_TAG, id>>)))

DataAccess_get_module(st, id) == Ok(get_by_path(st, module_access_path(id)))

DataAccess_delete(st, path) == RawRemove(st, KeyOf(path))
DataAccess_insert(st, path, blob) == RawInsert(st, KeyOf(path), blob)

(***************************************************************************)
(* Chain context resolver.                                                 *)
(***************************************************************************)
TxInfo(timestamp, block_height) ==
    [timestamp |-> timestamp, block_height |-> block_height]

\* Mutant: the address of the read is not looked at.
ExecutionContext_resolve_any_address(info, addr, tag) ==
    IF tag = TIMESTAMP_MODULE
    THEN IF info # None
         THEN Resolved(Ok(Some(to_le_bytes(info[1].timestamp, U64_BYTES))))
         ELSE Resolved(Ok(None))
    ELSE IF tag = BLOCK_MODULE
    THEN IF info # None
         THEN Resolved(Ok(Some(to_le_bytes(info[1].block_height, U64_BYTES))))
         ELSE Resolved(Ok(None))
    ELSE Unresolved

ExecutionContext_resolve(info, addr, tag) ==
    IF addr = CORE_CODE_ADDRESS
    THEN IF tag = TIMESTAMP_MODULE
         THEN IF info # None
              THEN Resolved(Ok(Some(to_le_bytes(info[1].timestamp, U64_BYTES))))
              ELSE Resolved(Ok(None))
         ELSE IF tag = BLOCK_MODULE
         THEN IF info # None
              THEN Resolved(Ok(Some(to_le_bytes(info[1].block_height, U64_BYTES))))
              ELSE Resolved(Ok(None))
         ELSE Unresolved
    ELSE Unresolved

(***************************************************************************)
(* Balance recognition and the bank resolver.                              *)
(***************************************************************************)
Account(amount, is_lockable) == [amount |-> amount, is_lockable |-> is_lockable]

\* Mutant: any struct type parameter makes a balance tag.
is_balance_any_struct(tag) ==
    /\ tag.address = CORE_CODE_ADDRESS
    /\ tag.module = ACCOUNT_MODULE
    /\ tag.name = BALANCE_STRUCT
    /\ Len(tag.type_params) = 1
    /\ tag.type_params[1].k = "Struct"

\* Mutant: the kind of the type parameter is not looked at.
is_balance_by_name(tag) ==
    /\ tag.address = CORE_CODE_ADDRESS
    /\ tag.module = ACCOUNT_MODULE
    /\ tag.name = BALANCE_STRUCT
    /\ Len(tag.type_params) = 1

is_balance(tag) ==
    IF /\ tag.address = CORE_CODE_ADDRESS
       /\ tag.module = ACCOUNT_MODULE
       /\ tag.name = BALANCE_STRUCT
       /\ Len(tag.type_params) = 1
    THEN IF tag.type_params[1].k = "Struct"
         THEN /\ tag.type_params[1].st.address = CORE_CODE_ADDRESS
              /\ tag.type_params[1].st.module = DFI_MODULE
         ELSE FALSE
    ELSE FALSE

\* Balances::get_balance of the host ledger.
get_balance(ledger, ticker, addr) == MapGet(ledger, <<ticker, addr>>)

\* The session cache lookup balances.get(address).and_then(|m| m.get(ticker)).
CacheGet(balances, address, ticker) ==
    IF address \in DOMAIN balances
    THEN MapGet(balances[address], ticker)
    ELSE None

\* balances.entry(address).or_default().insert(ticker, account).
CachePut(balances, address, ticker, account) ==
    MapPut(balances, address,
           MapPut(IF address \in DOMAIN balances THEN balances[address] ELSE EmptyMap,
                  ticker, account))

\* Mutant: the host is asked on every read, the session cache never.
BankSession_resolve_host_first(balances, ledger, address, tag) ==
    IF is_balance(tag)
    THEN IF Len(tag.type_params) >= 1 /\ tag.type_params[1].k = "Struct"
         THEN LET ticker == tag.type_params[1].st.name
                  fetched == get_balance(ledger, ticker, address)
              IN  IF fetched # None
                  THEN [rr |-> Resolved(Ok(Some(to_le_bytes(fetched[1].amount, U128_BYTES)))),
                        balances |-> CachePut(balances, address, ticker, fetched[1])]
                  ELSE [rr |-> Resolved(Ok(None)), balances |-> balances]
         ELSE [rr |-> Resolved(Err(INTERNAL_TYPE_ERROR)), balances |-> balances]
    ELSE [rr |-> Unresolved, balances |-> balances]

\* Mutant: a fetched balance is returned but not kept in the session cache.
BankSession_resolve_no_store(balances, ledger, address, tag) ==
    IF is_balance(tag)
    THEN IF Len(tag.type_params) >= 1 /\ tag.type_params[1].k = "Struct"
         THEN LET ticker == tag.type_params[1].st.name
                  cached == CacheGet(balances, address, ticker)
                  fetched == get_balance(ledger, ticker, address)
              IN  IF cached # None
                  THEN [rr |-> Resolved(Ok(Some(to_le_bytes(cached[1].amount, U128_BYTES)))),
                        balances |-> balances]
                  ELSE IF fetched # None
                  THEN [rr |-> Resolved(Ok(Some(to_le_bytes(fetched[1].amount, U128_BYTES)))),
                        balances |-> balances]
                  ELSE [rr |-> Resolved(Ok(None)), balances |-> balances]
         ELSE [rr |-> Resolved(Err(INTERNAL_TYPE_ERROR)), balances |-> balances]
    ELSE [rr |-> Unresolved, balances |-> balances]

\* Mutant: an absent balance is cached as an empty account.
BankSession_resolve_caching_absent(balances, ledger, address, tag) ==
    IF is_balance(tag)
    THEN IF Len(tag.type_params) >= 1 /\ tag.type_params[1].k = "Struct"
         THEN LET ticker == tag.type_params[1].st.name
                  cached == CacheGet(balances, address, ticker)
                  fetched == get_balance(ledger, ticker, address)
              IN  IF cached # None
                  THEN [rr |-> Resolved(Ok(Some(to_le_bytes(cached[1].amount, U128_BYTES)))),
                        balances |-> balances]
                  ELSE IF fetched # None
                  THEN [rr |-> Resolved(Ok(Some(to_le_bytes(fetched[1].amount, U128_BYTES)))),
                        balances |-> CachePut(balances, address, ticker, fetched[1])]
                  ELSE [rr |-> Resolved(Ok(None)),
                        balances |-> CachePut(balances, address, ticker,
                                              Account(0, FALSE))]
         ELSE [rr |-> Resolved(Err(INTERNAL_TYPE_ERROR)), balances |-> balances]
    ELSE [rr |-> Unresolved, balances |-> balances]

\* BankSession::resolve: the resolver result and the session cache after it.
BankSession_resolve(balances, ledger, address, tag) ==
    IF is_balance(tag)
    THEN IF Len(tag.type_params) >= 1 /\ tag.type_params[1].k = "Struct"
         THEN LET ticker == tag.type_params[1].st.name
                  cached == CacheGet(balances, address, ticker)
                  fetched == get_balance(ledger, ticker, address)
              IN  IF cached # None
                  THEN [rr |-> Resolved(Ok(Some(to_le_bytes(cached[1].amount, U128_BYTES)))),
                        balances |-> balances]
                  ELSE IF fetched # None
                  THEN [rr |-> Resolved(Ok(Some(to_le_bytes(fetched[1].amount, U128_BYTES)))),
                        balances |-> CachePut(balances, address, ticker, fetched[1])]
                  ELSE [rr |-> Resolved(Ok(None)), balances |-> balances]
         ELSE [rr |-> Resolved(Err(INTERNAL_TYPE_ERROR)), balances |-> balances]
    ELSE [rr |-> Unresolved, balances |-> balances]

(***************************************************************************)
(* Session::get_resource: the resolver chain.  `consulted` lists the       *)
(* resolvers asked, in order, each with what it answered.                  *)
(***************************************************************************)
\* Mutant: the bank is asked before the chain context.
Session_get_resource_bank_first(sess, st, ledger, address, tag) ==
    LET c == ExecutionContext_resolve(sess.info, address, tag)
        b == BankSession_resolve(sess.balances, ledger, address, tag)
        d == DataAccess_get_resource(st, address, tag)
    IN  IF b.rr # Unresolved
        THEN [result |-> b.rr[1], balances |-> b.balances,
              consulted |-> <<[by |-> "bank", rr |-> b.rr]>>]
        ELSE IF c # Unresolved
        THEN [result |-> c[1], balances |-> b.balances,
              consulted |-> <<[by |-> "bank", rr |-> b.rr], [by |-> "context", rr |-> c]>>]
        ELSE [result |-> d, balances |-> b.balances,
              consulted |-> <<[by |-> "bank", rr |-> b.rr], [by |-> "context", rr |-> c],
                              [by |-> "store", rr |-> Resolved(d)]>>]

\* Session::get_module.
Session_get_module(st, id) == DataAccess_get_module(st, id)

Session_get_resource(sess, st, ledger, address, tag) ==
    LET c == ExecutionContext_resolve(sess.info, address, tag)
        b == BankSession_resolve(sess.balances, ledger, address, tag)
        d == DataAccess_get_resource(st, address, tag)
    IN  IF c # Unresolved
        THEN [result |-> c[1], balances |-> sess.balances,
              consulted |-> <<[by |-> "context", rr |-> c]>>]
        ELSE IF b.rr # Unresolved
        THEN [result |-> b.rr[1], balances |-> b.balances,
              consulted |-> <<[by |-> "context", rr |-> c], [by |-> "bank", rr |-> b.rr]>>]
        ELSE [result |-> d, balances |-> b.balances,
              consulted |-> <<[by |-> "context", rr |-> c], [by |-> "bank", rr |-> b.rr],
                              [by |-> "store", rr |-> Resolved(d)]>>]

(***************************************************************************)
(* Loaded types.  The loader holds the struct definitions of the published *)
(* modules; a Type refers to them by index.                                *)
(***************************************************************************)
TyPrim(k) == [k |-> k]
TyStruct(idx) == [k |-> "Struct", idx |-> idx]
TyStructInstantiation(idx, params) ==
    [k |-> "StructInstantiation", idx |-> idx, params |-> params]
TyParam(idx) == [k |-> "TyParam", idx |-> idx]
TyVector(e) == [k |-> "Vector", e |-> e]

StructType(a, m, n, fields) ==
    [address |-> a, module |-> m, name |-> n, fields |-> fields]

IDX_T == 1
IDX_BALANCE == 2
IDX_LOCK3 == 3
IDX_STORE_U64 == 4
IDX_USD == 5
IDX_BTC == 6
IDX_TIMESTAMP == 7
IDX_PAIR == 8
IDX_VAULT == 9
IDX_WRAP == 10
IDX_SECOND == 11
IDX_HOLDER == 12

\* The struct definitions held by the loader, by global index:
\*   Dfinance::T<Coin> { value: u128 }
\*   Account::Balance<Token> { coin: Dfinance::T<Token> }
\*   BalanceTest::Lock3<C> { inner: Dfinance::T<C> }
\*   Store::U64 { val: u64 }
\*   Dfinance::USD {}, Dfinance::BTC {} (one placeholder bool field each)
\*   Timestamp::CurrentTimeMicroseconds { microseconds: u64 }
\*   BalanceTest::Pair { a: Dfinance::T<USD>, n: u64, b: Dfinance::T<BTC> }
\*   BalanceTest::Vault<C> { coins: vector<Dfinance::T<C>>, n: u64, inner: Lock3<C> }
\*   BalanceTest::Wrap<X> { x: X }
\*   BalanceTest::Second<X, Y> { y: Y }
\*   BalanceTest::Holder<A> { w: Second<u8, A> }
LoaderStructs ==
    << StructType(CORE_CODE_ADDRESS, DFI_MODULE, T_STRUCT, <<TyPrim("U128")>>),
       StructType(CORE_CODE_ADDRESS, ACCOUNT_MODULE, BALANCE_STRUCT,
                  <<TyStructInstantiation(IDX_T, <<TyParam(0)>>)>>),
       StructType(CORE_CODE_ADDRESS, "BalanceTest", "Lock3",
                  <<TyStructInstantiation(IDX_T, <<TyParam(0)>>)>>),
       StructType(CORE_CODE_ADDRESS, "Store", "U64", <<TyPrim("U64")>>),
       StructType(CORE_CODE_ADDRESS, DFI_MODULE, "USD", <<TyPrim("Bool")>>),
       StructType(CORE_CODE_ADDRESS, DFI_MODULE, "BTC", <<TyPrim("Bool")>>),
       StructType(CORE_CODE_ADDRESS, "Timestamp", "CurrentTimeMicroseconds",
                  <<TyPrim("U64")>>),
       StructType(CORE_CODE_ADDRESS, "BalanceTest", "Pair",
                  <<TyStructInstantiation(IDX_T, <<TyStruct(IDX_USD)>>),
                    TyPrim("U64"),
                    TyStructInstantiation(IDX_T, <<TyStruct(IDX_BTC)>>)>>),
       StructType(CORE_CODE_ADDRESS, "BalanceTest", "Vault",
                  <<TyVector(TyStructInstantiation(IDX_T, <<TyParam(0)>>)),
                    TyPrim("U64"),
                    TyStructInstantiation(IDX_LOCK3, <<TyParam(0)>>)>>),
       StructType(CORE_CODE_ADDRESS, "BalanceTest", "Wrap", <<TyParam(0)>>),
       StructType(CORE_CODE_ADDRESS, "BalanceTest", "Second", <<TyParam(1)>>),
       StructType(CORE_CODE_ADDRESS, "BalanceTest", "Holder",
                  <<TyStructInstantiation(IDX_SECOND, <<TyPrim("U8"), TyParam(0)>>)>>) >>

struct_at(idx) == LoaderStructs[idx]

\* Loader::struct_tag_to_struct_gidx: the index of the definition a struct
\* tag names, or an error (None) when no loaded module defines it.
struct_tag_to_struct_gidx(st) ==
    LET hits == {i \in DOMAIN LoaderStructs :
                    /\ LoaderStructs[i].address = st.address
                    /\ LoaderStructs[i].module = st.module
                    /\ LoaderStructs[i].name = st.name}
    IN  IF hits = {} THEN None ELSE Some(CHOOSE i \in hits : TRUE)

RECURSIVE type_to_type_tag(_)
RECURSIVE types_to_type_tags(_)
\* Loader::type_to_type_tag: None stands for the error on a type parameter
\* or a reference.
type_to_type_tag(tp) ==
    CASE tp.k = "Struct" ->
           Some(TStruct(StructTag(struct_at(tp.idx).address, struct_at(tp.idx).module,
                                  struct_at(tp.idx).name, <<>>)))
      [] tp.k = "StructInstantiation" ->
           LET ps == types_to_type_tags(tp.params)
           IN  IF ps = None THEN None
               ELSE Some(TStruct(StructTag(struct_at(tp.idx).address,
                                           struct_at(tp.idx).module,
                                           struct_at(tp.idx).name, ps[1])))
      [] tp.k = "Vector" ->
           LET e == type_to_type_tag(tp.e)
           IN  IF e = None THEN None ELSE Some(TVector(e[1]))
      [] tp.k \in {"TyParam", "Reference", "MutableReference"} -> None
      [] OTHER -> Some(TPrim(tp.k))

types_to_type_tags(tps) ==
    IF tps = <<>> THEN Some(<<>>)
    ELSE LET h == type_to_type_tag(Head(tps))
             t == types_to_type_tags(Tail(tps))
         IN  IF h = None \/ t = None THEN None ELSE Some(<<h[1]>> \o t[1])

\* Loader::struct_gidx_to_type_tag(index, tp_params).ok().map(|st| st.type_params)
struct_gidx_to_type_tag(idx, tp_params) == types_to_type_tags(tp_params)

is_coin(tp) ==
    /\ tp.address = CORE_CODE_ADDRESS
    /\ tp.module = DFI_MODULE
    /\ tp.name = T_STRUCT

(***************************************************************************)
(* Type walker.  A walk yields the list of (ticker, field path) pairs, or  *)
(* panics on an index out of bounds.                                       *)
(***************************************************************************)
Walked(v) == [panic |-> FALSE, v |-> v]
WalkPanic == [panic |-> TRUE, v |-> <<>>]

\* Mutant: the field's index is pushed at the end of the path.
Prepend_last(index, pairs) == [i \in DOMAIN pairs |-> <<pairs[i][1], pairs[i][2] \o <<index>>>>]

\* path.insert(0, index) on every pair of a field's result.
Prepend(index, pairs) == [i \in DOMAIN pairs |-> <<pairs[i][1], <<index>> \o pairs[i][2]>>]

\* Mutant: a type parameter is never looked up in the tags.
CoinTicker_unbound(param, tp_tags) ==
    CASE param.k \in {"Struct", "StructInstantiation"} -> Some(struct_at(param.idx).name)
      [] param.k = "TyParam" -> Some("_")
      [] param.k = "Bool" -> Some("bool")
      [] param.k = "U8" -> Some("u8")
      [] param.k = "U64" -> Some("u64")
      [] param.k = "U128" -> Some("u128")
      [] param.k = "Address" -> Some("address")
      [] param.k = "Signer" -> Some("signer")
      [] param.k = "Vector" -> Some("vector")
      [] OTHER -> Some("reference")

\* The ticker of a coin instantiation, from its single type parameter.
CoinTicker(param, tp_tags) ==
    CASE param.k = "Struct" -> Some(struct_at(param.idx).name)
      [] param.k = "TyParam" ->
           IF param.idx + 1 \in DOMAIN tp_tags
           THEN IF tp_tags[param.idx + 1].k = "Struct"
                THEN Some(tp_tags[param.idx + 1].st.name)
                ELSE Some("_")
           ELSE None
      [] param.k = "Bool" -> Some("bool")
      [] param.k = "U8" -> Some("u8")
      [] param.k = "U64" -> Some("u64")
      [] param.k = "U128" -> Some("u128")
      [] param.k = "Address" -> Some("address")
      [] param.k = "Signer" -> Some("signer")
      [] param.k = "Vector" -> Some("vector")
      [] param.k = "StructInstantiation" -> Some(struct_at(param.idx).name)
      [] OTHER -> Some("reference")

RECURSIVE find_in_type(_, _)
RECURSIVE find_in_fields(_, _, _)

\* The loop over struct_tp.fields.iter().enumerate(), from field `index` on.
find_in_fields(fields, index, tp_tags) ==
    IF index >= Len(fields) THEN Walked(<<>>)
    ELSE LET field == find_in_type(fields[index + 1], tp_tags)
             rest == find_in_fields(fields, index + 1, tp_tags)
         IN  IF field.panic \/ rest.panic THEN WalkPanic
             ELSE Walked(Prepend(index, field.v) \o rest.v)

find_in_type(tp, tp_tags) ==
    CASE tp.k = "Vector" -> find_in_type(tp.e, tp_tags)
      [] tp.k = "Struct" -> find_in_fields(struct_at(tp.idx).fields, 0, tp_tags)
      [] tp.k = "StructInstantiation" ->
           LET inner_tp_tags == struct_gidx_to_type_tag(tp.idx, tp.params)
               struct_tp == struct_at(tp.idx)
           IN  IF is_coin(struct_tp) /\ Len(tp.params) = 1
               THEN LET ticker == CoinTicker(tp.params[1], tp_tags)
                    IN  IF ticker = None THEN WalkPanic
                        ELSE Walked(<< <<ticker[1], <<0>>>> >>)
               ELSE find_in_fields(struct_tp.fields, 0,
                                   IF inner_tp_tags # None THEN inner_tp_tags[1]
                                   ELSE tp_tags)
      [] tp.k = "TyParam" ->
           IF tp.idx + 1 \in DOMAIN tp_tags
           THEN IF tp_tags[tp.idx + 1].k = "Struct"
                THEN LET gidx == struct_tag_to_struct_gidx(tp_tags[tp.idx + 1].st)
                     IN  IF gidx # None
                         THEN find_in_type(TyStruct(gidx[1]),
                                           tp_tags[tp.idx + 1].st.type_params)
                         ELSE Walked(<<>>)
                ELSE Walked(<<>>)
           ELSE WalkPanic
      [] OTHER -> Walked(<<>>)

(***************************************************************************)
(* Balance handlers.                                                       *)
(***************************************************************************)
Unlocked(ticker) == [kind |-> "Unlocked", ticker |-> ticker, paths |-> <<>>]
Locked(paths) == [kind |-> "Locked", ticker |-> "", paths |-> paths]

is_unlocked(handler) == handler.kind = "Unlocked"

\* The handler for the balances the walker found in a type that is no
\* balance itself.
LockedHandler(balances) ==
    IF balances.panic THEN [panic |-> TRUE, res |-> Ok(None)]
    ELSE IF balances.v = <<>>
    THEN [panic |-> FALSE, res |-> Ok(None)]
    ELSE [panic |-> FALSE, res |-> Ok(Some(Locked(balances.v)))]

\* Mutant: a balance tag is walked like any other type.
find_balance_walk_only(tag, tp) == LockedHandler(find_in_type(tp, tag.type_params))

\* TypeWalker::find_balance: Result<Option<BalanceHandler>>, or a panic.
find_balance(tag, tp) ==
    IF is_balance(tag)
    THEN IF Len(tag.type_params) >= 1 /\ tag.type_params[1].k = "Struct"
         THEN [panic |-> FALSE, res |-> Ok(Some(Unlocked(tag.type_params[1].st.name)))]
         ELSE [panic |-> FALSE, res |-> Err(INTERNAL_TYPE_ERROR)]
    ELSE LockedHandler(find_in_type(tp, tag.type_params))

(***************************************************************************)
(* Values (ValueImpl and its containers) and the extraction of balances.   *)
(***************************************************************************)
VU128(n) == [k |-> "U128", v |-> n, vals |-> <<>>]
VU64(n) == [k |-> "U64", v |-> n, vals |-> <<>>]
VStructC(vals) == [k |-> "StructC", v |-> 0, vals |-> vals]
VVecC(vals) == [k |-> "VecC", v |-> 0, vals |-> vals]

Loaded(v) == [st |-> "ok", v |-> v]
LoadErr == [st |-> "err", v |-> <<>>]
LoadPanic == [st |-> "panic", v |-> <<>>]

SubPath(path) == SubSeq(path, 2, Len(path))

RECURSIVE load_value(_, _)
RECURSIVE load_each(_, _, _)
RECURSIVE load_each_last_first(_, _, _)

\* Mutant: the elements of a vector are loaded from the last to the first.
load_each_last_first(path, vals, i) ==
    IF i > Len(vals) THEN Loaded(<<>>)
    ELSE LET h == load_value(path, vals[Len(vals) + 1 - i])
         IN  IF h.st # "ok" THEN h
             ELSE LET t == load_each_last_first(path, vals, i + 1)
                  IN  IF t.st # "ok" THEN t ELSE Loaded(h.v \o t.v)

\* The loop of the vector containers: load the path in every element, in
\* element order, stopping at the first failure.
load_each(path, vals, i) ==
    IF i > Len(vals) THEN Loaded(<<>>)
    ELSE LET h == load_value(path, vals[i])
         IN  IF h.st # "ok" THEN h
             ELSE LET t == load_each(path, vals, i + 1)
                  IN  IF t.st # "ok" THEN t ELSE Loaded(h.v \o t.v)

\* BalanceHandler::container.
container(path, cr) ==
    CASE cr.k \in {"Locals", "StructR", "StructC"} ->
           IF path = <<>> THEN LoadPanic
           ELSE IF path[1] + 1 \notin DOMAIN cr.vals THEN LoadPanic
           ELSE load_value(SubPath(path), cr.vals[path[1] + 1])
      [] cr.k \in {"VecR", "VecC"} -> load_each(path, cr.vals, 1)
      [] OTHER -> LoadErr

\* BalanceHandler::load_value.
load_value(path, val) ==
    CASE val.k = "U128" -> IF path # <<>> THEN LoadErr ELSE Loaded(<<val.v>>)
      [] val.k \in {"Locals", "StructR", "StructC", "VecR", "VecC",
                    "VecU8", "VecU64", "VecU128", "VecBool", "VecAddress"} ->
           container(path, val)
      [] OTHER -> LoadErr

Balance(ticker, amount, locked) ==
    [ticker |-> ticker, balance |-> amount, locked |-> locked]

Tagged(ticker, amounts, locked) ==
    [i \in DOMAIN amounts |-> Balance(ticker, amounts[i], locked)]

RECURSIVE resolve_locked(_, _, _)
\* The loop over the (ticker, path) pairs of a Locked handler.
resolve_locked(tickers, val, i) ==
    IF i > Len(tickers) THEN Loaded(<<>>)
    ELSE LET h == load_value(tickers[i][2], val)
         IN  IF h.st # "ok" THEN h
             ELSE LET t == resolve_locked(tickers, val, i + 1)
                  IN  IF t.st # "ok" THEN t
                      ELSE Loaded(Tagged(tickers[i][1], h.v, TRUE) \o t.v)

\* BalanceHandler::resolve_balance.
resolve_balance(handler, val) ==
    IF handler.kind = "Locked"
    THEN resolve_locked(handler.paths, val, 1)
    ELSE LET h == load_value(<<0, 0>>, val)
         IN  IF h.st # "ok" THEN h ELSE Loaded(Tagged(handler.ticker, h.v, FALSE))

(***************************************************************************)
(* Value::simple_serialize against a layout (BCS): None on a mismatch.     *)
(***************************************************************************)
LPrim(k) == [k |-> k, fields |-> <<>>]
LStruct(fields) == [k |-> "Struct", fields |-> fields]

RECURSIVE simple_serialize(_, _)
RECURSIVE serialize_fields(_, _, _)
RECURSIVE serialize_elems(_, _, _)

serialize_fields(vals, layouts, i) ==
    IF i > Len(vals) THEN Some(<<>>)
    ELSE LET h == simple_serialize(vals[i], layouts[i])
             t == serialize_fields(vals, layouts, i + 1)
         IN  IF h = None \/ t = None THEN None ELSE Some(h[1] \o t[1])

serialize_elems(vals, layout, i) ==
    IF i > Len(vals) THEN Some(<<>>)
    ELSE LET h == simple_serialize(vals[i], layout)
             t == serialize_elems(vals, layout, i + 1)
         IN  IF h = None \/ t = None THEN None ELSE Some(h[1] \o t[1])

simple_serialize(val, layout) ==
    CASE layout.k = "U8" /\ val.k = "U8" -> Some(to_le_bytes(val.v, 1))
      [] layout.k = "Bool" /\ val.k = "Bool" -> Some(to_le_bytes(val.v, 1))
      [] layout.k = "U64" /\ val.k = "U64" -> Some(to_le_bytes(val.v, U64_BYTES))
      [] layout.k = "U128" /\ val.k = "U128" -> Some(to_le_bytes(val.v, U128_BYTES))
      [] layout.k = "Struct" /\ val.k \in {"StructC", "StructR"} ->
           IF Len(val.vals) # Len(layout.fields) THEN None
           ELSE serialize_fields(val.vals, layout.fields, 1)
      [] layout.k = "Vector" /\ val.k \in {"VecC", "VecR"} ->
           LET body == serialize_elems(val.vals, layout.fields[1], 1)
           IN  IF body = None THEN None ELSE Some(<<Len(val.vals)>> \o body[1])
      [] layout.k = "Vector" /\ val.k = "VecU8" /\ layout.fields[1].k = "U8" ->
           Some(<<Len(val.vals)>> \o val.vals)
      [] OTHER -> None

(***************************************************************************)
(* The bank's write-side handlers.                                         *)
(***************************************************************************)
\* BalanceHandlerCache::store_balance_handler, applied to what find_balance
\* returned: an error or a panic of find_balance leaves the cache alone.
\* Mutant: storing a handler drops every other entry of the cache.
store_balance_handler_replace_all(cache, tag, found) ==
    IF found.panic
    THEN [panic |-> TRUE, res |-> Ok(None), cache |-> cache, hit |-> FALSE]
    ELSE IF ~found.res.ok
    THEN [panic |-> FALSE, res |-> found.res, cache |-> cache, hit |-> FALSE]
    ELSE [panic |-> FALSE, res |-> found.res,
          cache |-> MapPut(EmptyMap, tag, found.res.val), hit |-> FALSE]

store_balance_handler(cache, tag, found) ==
    IF found.panic
    THEN [panic |-> TRUE, res |-> Ok(None), cache |-> cache, hit |-> FALSE]
    ELSE IF ~found.res.ok
    THEN [panic |-> FALSE, res |-> found.res, cache |-> cache, hit |-> FALSE]
    ELSE [panic |-> FALSE, res |-> found.res,
          cache |-> MapPut(cache, tag, found.res.val), hit |-> FALSE]

\* Mutant: the handler is computed and stored on every call.
make_handlers_recompute(cache, tag, tp) ==
    store_balance_handler(cache, tag, find_balance(tag, tp))

\* BankSession::make_handlers with BalanceHandlerCache::get_balance_handler:
\* the handler and the handler cache after the call; `hit` tells that the
\* cache held the tag, so that find_balance was not called.
make_handlers(cache, tag, tp) ==
    IF tag \in DOMAIN cache
    THEN [panic |-> FALSE, res |-> Ok(cache[tag]), cache |-> cache, hit |-> TRUE]
    ELSE store_balance_handler(cache, tag, find_balance(tag, tp))

\* Outcome of a bank write handler: `handled` is the returned bool, `dbg`
\* the balances printed by dbg!, `handler` the handler used.
Handled(h, m, handler, dbg) ==
    [st |-> "ok", err |-> "EXECUTED", handled |-> h, cache |-> m.cache,
     hit |-> m.hit, handler |-> handler, dbg |-> dbg]
HandleErr(e, m, handler) ==
    [st |-> "err", err |-> e, handled |-> FALSE, cache |-> m.cache,
     hit |-> m.hit, handler |-> handler, dbg |-> <<>>]
HandlePanic(m, handler) ==
    [st |-> "panic", err |-> "PANIC", handled |-> FALSE, cache |-> m.cache,
     hit |-> m.hit, handler |-> handler, dbg |-> <<>>]

\* BankSession::handle_delete_balance, from the result m of make_handlers.
delete_balance(m) ==
    IF m.panic THEN HandlePanic(m, None)
    ELSE IF ~m.res.ok THEN HandleErr(m.res.err, m, None)
    ELSE IF m.res.val # None
    THEN Handled(is_unlocked(m.res.val[1]), m, m.res.val, <<>>)
    ELSE Handled(FALSE, m, None, <<>>)

handle_delete_balance(cache, address, tag, ty, tp) ==
    delete_balance(make_handlers(cache, tag, tp))

\* dbg!(handler.resolve_balance(&value.0)?); Ok(handler.is_unlocked()): the
\* balances r are printed and dropped.
insert_resolved(m, r) ==
    IF r.st = "panic" THEN HandlePanic(m, m.res.val)
    ELSE IF r.st = "err" THEN HandleErr(INTERNAL_TYPE_ERROR, m, m.res.val)
    ELSE Handled(is_unlocked(m.res.val[1]), m, m.res.val, r.v)

\* BankSession::handle_insert_balance, from the result m of make_handlers.
insert_balance(m, value) ==
    IF m.panic THEN HandlePanic(m, None)
    ELSE IF ~m.res.ok THEN HandleErr(m.res.err, m, None)
    ELSE IF m.res.val # None
    THEN insert_resolved(m, resolve_balance(m.res.val[1], value))
    ELSE Handled(FALSE, m, None, <<>>)

handle_insert_balance(cache, address, tag, ty, tp, value) ==
    insert_balance(make_handlers(cache, tag, tp), value)

(***************************************************************************)
(* Session write API.  An outcome names the status, the byte store and the *)
(* handler cache after the call and the byte-store call made, if any.      *)
(***************************************************************************)
WriteOutcome(h, st, store_op) ==
    [st |-> h.st, err |-> h.err, store |-> st, cache |-> h.cache, hit |-> h.hit,
     store_op |-> store_op, handled |-> h.handled, handler |-> h.handler,
     dbg |-> h.dbg]

\* Mutant: the byte-store key is removed whatever the bank returned.
delete_always(h, st, address, tag) ==
    IF h.st # "ok" THEN WriteOutcome(h, st, "none")
    ELSE WriteOutcome(h, DataAccess_delete(st, AccessPath(address, access_vector(tag))),
                      "remove")

\* Session::delete_resource, from the outcome h of handle_delete_balance.
delete_unhandled(h, st, address, tag) ==
    IF h.st # "ok" THEN WriteOutcome(h, st, "none")
    ELSE IF ~h.handled
    THEN WriteOutcome(h, DataAccess_delete(st, AccessPath(address, access_vector(tag))),
                      "remove")
    ELSE WriteOutcome(h, st, "none")

Session_delete_resource(st, cache, address, tag, ty, tp) ==
    delete_unhandled(handle_delete_balance(cache, address, tag, ty, tp), st, address, tag)

\* The byte-store branch of Session::insert_resource, from the serialized
\* blob.
\* Mutant: a value that does not serialize is stored as an empty blob.
insert_blob_lossy(h, st, ap, blob) ==
    IF blob = None
    THEN WriteOutcome(h, DataAccess_insert(st, ap, <<>>), "insert")
    ELSE WriteOutcome(h, DataAccess_insert(st, ap, blob[1]), "insert")

insert_blob(h, st, ap, blob) ==
    IF blob = None
    THEN WriteOutcome([h EXCEPT !.st = "err", !.err = UNKNOWN_INVARIANT_VIOLATION_ERROR],
                      st, "none")
    ELSE WriteOutcome(h, DataAccess_insert(st, ap, blob[1]), "insert")

\* Session::insert_resource, from the outcome h of handle_insert_balance.
insert_unhandled(h, st, address, tag, ty, value) ==
    IF h.st # "ok" THEN WriteOutcome(h, st, "none")
    ELSE IF ~h.handled
    THEN insert_blob(h, st, AccessPath(address, access_vector(tag)),
                     simple_serialize(value, ty))
    ELSE WriteOutcome(h, st, "none")

Session_insert_resource(st, cache, address, tag, ty, tp, value) ==
    insert_unhandled(handle_insert_balance(cache, address, tag, ty, tp, value),
                     st, address, tag, ty, value)

(***************************************************************************)
(* Module publishing and events.                                           *)
(***************************************************************************)
\* Session::publish_module.
Session_publish_module(st, id, blob) ==
    DataAccess_insert(st, AccessPath(id.address, module_access_vector(id)), blob)

\* An event the interpreter emitted: (guid, seq, tag, layout, value).
Event(guid, seq, tag, layout, value) ==
    [guid |-> guid, seq |-> seq, tag |-> tag, layout |-> layout, value |-> value]

\* Mutant: the host handler keeps the newest event first.
on_event_front(sink, guid, seq_num, ty_tag, message) ==
    <<<<guid, seq_num, ty_tag, message>>>> \o sink

\* EventHandlerMock::on_event: data.push((guid, seq_num, ty_tag, message)).
on_event(sink, guid, seq_num, ty_tag, message) ==
    Append(sink, <<guid, seq_num, ty_tag, message>>)

\* Mutant: the handler is called before the serialization is looked at.
deliver_event_unchecked(sink, event, msg) ==
    IF msg = None
    THEN [st |-> "err", err |-> UNKNOWN_INVARIANT_VIOLATION_ERROR,
          sink |-> on_event(sink, event.guid, event.seq, event.tag, <<>>)]
    ELSE [st |-> "ok", err |-> "EXECUTED",
          sink |-> on_event(sink, event.guid, event.seq, event.tag, msg[1])]

\* EventWriter::write_event from the serialized message msg.
deliver_event(sink, event, msg) ==
    IF msg = None
    THEN [st |-> "err", err |-> UNKNOWN_INVARIANT_VIOLATION_ERROR, sink |-> sink]
    ELSE [st |-> "ok", err |-> "EXECUTED",
          sink |-> on_event(sink, event.guid, event.seq, event.tag, msg[1])]

\* EventWriter::write_event, which Session::write_event delegates to.
write_event(sink, event) ==
    deliver_event(sink, event, simple_serialize(event.value, event.layout))

(***************************************************************************)
(* Mvm::handle_tx_effects.  The commit state holds the status so far, the  *)
(* three sinks' contents and the effects applied, in order of application. *)
(***************************************************************************)
TransactionEffects(resources, modules, events_) ==
    [resources |-> resources, modules |-> modules, events |-> events_]

\* An entry of tx_effects.resources[..].1: (struct_tag, ty_layout, tp, val_opt).
ResourceEffect(inp, val_opt) ==
    [tag |-> inp.tag, ty |-> inp.ty, tp |-> inp.tp, val |-> val_opt]

CommitState(st, err, st_store, cache, sink, applied) ==
    [st |-> st, err |-> err, store |-> st_store, cache |-> cache, sink |-> sink,
     applied |-> applied]

\* Labels of the applied effects.
ResourceLabel(addr, e) ==
    [kind |-> IF e.val = None THEN "delete" ELSE "insert", at |-> addr, what |-> e.tag]
ModuleLabel(id) == [kind |-> "module", at |-> id.address, what |-> id]
EventLabel(event) == [kind |-> "event", at |-> event.seq, what |-> event.guid]

\* The commit state after a session write with outcome r.
after_write(acc, r, label) ==
    CommitState(r.st, r.err, r.store, r.cache, acc.sink,
                IF r.st = "ok" THEN Append(acc.applied, label) ELSE acc.applied)

\* The body of the inner loop: delete for None, insert for Some(val).
apply_resource(acc, addr, e) ==
    IF e.val = None
    THEN after_write(acc, Session_delete_resource(acc.store, acc.cache, addr,
                                                  e.tag, e.ty, e.tp),
                     ResourceLabel(addr, e))
    ELSE after_write(acc, Session_insert_resource(acc.store, acc.cache, addr,
                                                  e.tag, e.ty, e.tp, e.val[1]),
                     ResourceLabel(addr, e))

RECURSIVE apply_vals_go_on(_, _, _, _)
\* Mutant: an error of a resource effect does not end the loop.
apply_vals_go_on(acc, addr, vals, i) ==
    IF i > Len(vals) THEN acc
    ELSE apply_vals_go_on(apply_resource(acc, addr, vals[i]), addr, vals, i + 1)

RECURSIVE apply_vals(_, _, _, _)
\* for (struct_tag, ty_layout, tp, val_opt) in vals, left by `?` on an error.
apply_vals(acc, addr, vals, i) ==
    IF i > Len(vals) \/ acc.st # "ok" THEN acc
    ELSE apply_vals(apply_resource(acc, addr, vals[i]), addr, vals, i + 1)

RECURSIVE apply_resources(_, _, _)
\* for (addr, vals) in tx_effects.resources.
apply_resources(acc, resources, i) ==
    IF i > Len(resources) \/ acc.st # "ok" THEN acc
    ELSE apply_resources(apply_vals(acc, resources[i].addr, resources[i].vals, 1),
                         resources, i + 1)

RECURSIVE apply_modules(_, _, _)
\* for (module_id, blob) in tx_effects.modules.
apply_modules(acc, modules, i) ==
    IF i > Len(modules) \/ acc.st # "ok" THEN acc
    ELSE apply_modules(
             CommitState(acc.st, acc.err,
                         Session_publish_module(acc.store, modules[i].id, modules[i].blob),
                         acc.cache, acc.sink,
                         Append(acc.applied, ModuleLabel(modules[i].id))),
             modules, i + 1)

\* The commit state after write_event with outcome w.
after_event(acc, w, label) ==
    CommitState(w.st, w.err, acc.store, acc.cache, w.sink,
                IF w.st = "ok" THEN Append(acc.applied, label) ELSE acc.applied)

RECURSIVE apply_events(_, _, _)
\* for event in tx_effects.events.
apply_events(acc, events_, i) ==
    IF i > Len(events_) \/ acc.st # "ok" THEN acc
    ELSE apply_events(after_event(acc, write_event(acc.sink, events_[i]),
                                  EventLabel(events_[i])),
                      events_, i + 1)

\* Mutant: the events are written before the resources and the modules.
handle_tx_effects_events_first(acc, tx_effects) ==
    apply_modules(
        apply_resources(apply_events(acc, tx_effects.events, 1),
                        tx_effects.resources, 1),
        tx_effects.modules, 1)

\* Mvm::handle_tx_effects.
handle_tx_effects(acc, tx_effects) ==
    apply_events(
        apply_modules(apply_resources(acc, tx_effects.resources, 1),
                      tx_effects.modules, 1),
        tx_effects.events, 1)

(***************************************************************************)
(* Mvm: gas, publish_module, execute_script.  The cost strategy is the gas *)
(* remaining; a module blob is magic, self address, name index, body.      *)
(***************************************************************************)
OUT_OF_GAS == "OUT_OF_GAS"
MODULE_ADDRESS_DOES_NOT_MATCH_SENDER == "MODULE_ADDRESS_DOES_NOT_MATCH_SENDER"
BAD_MAGIC == "BAD_MAGIC"
MODULE_MAGIC == 161
ModuleNames == <<"Store", "Event">>

\* The intrinsic cost of a transaction of `size` bytes.
calculate_intrinsic_gas(size) == size

\* CostStrategy::charge_intrinsic_gas: all remaining gas is lost when it
\* does not cover the cost.
charge_intrinsic_gas(remaining, size) ==
    IF remaining >= calculate_intrinsic_gas(size)
    THEN [ok |-> TRUE, err |-> "EXECUTED",
          remaining |-> remaining - calculate_intrinsic_gas(size)]
    ELSE [ok |-> FALSE, err |-> OUT_OF_GAS, remaining |-> 0]

\* CompiledModule::deserialize followed by self_id().
deserialize(blob) ==
    IF /\ Len(blob) >= 3
       /\ blob[1] = MODULE_MAGIC
       /\ blob[3] \in DOMAIN ModuleNames
    THEN Ok(ModuleId(blob[2], ModuleNames[blob[3]]))
    ELSE Err(BAD_MAGIC)

ModuleTx(blob, sender) == [blob |-> blob, sender |-> sender]

\* What the interpreter hands to handle_vm_result: the result of execution
\* followed by session.finish(), and the gas remaining.
Executed(result, remaining) == [result |-> result, remaining |-> remaining]

VmResult(status_code, gas_used, commit) ==
    [status_code |-> status_code, gas_used |-> gas_used, commit |-> commit]

\* Mutant: an error of the commit is not reported.
vm_result_of_swallow(c, gas_used) == VmResult("EXECUTED", gas_used, c)

\* The match of handle_vm_result on the commit state c after the effects.
vm_result_of(c, gas_used) ==
    VmResult(IF c.st = "ok" THEN "EXECUTED" ELSE c.err, gas_used, c)

\* Mvm::handle_vm_result.
handle_vm_result(acc, max_gas_amount, ex) ==
    IF ex.result.ok
    THEN vm_result_of(handle_tx_effects(acc, ex.result.val),
                      max_gas_amount - ex.remaining)
    ELSE VmResult(ex.result.err, max_gas_amount - ex.remaining, acc)

\* MoveVM's publish_module and finish(): the effects hold the module, or
\* the interpreter rejects it with vm_status.
vm_publish_module(blob, id, vm_status) ==
    IF vm_status = "EXECUTED"
    THEN Ok(TransactionEffects(<<>>, <<[id |-> id, blob |-> blob]>>, <<>>))
    ELSE Err(vm_status)

\* The closure of publish_module after the sender check, from the second
\* charge c2.
publish_charged(module, id, vm_status, c2) ==
    IF ~c2.ok THEN Executed(Err(c2.err), c2.remaining)
    ELSE Executed(vm_publish_module(module.blob, id, vm_status), c2.remaining)

\* Mutant: the declared address is not compared with the sender.
publish_deserialized_any_sender(module, vm_status, c1, d) ==
    IF ~d.ok THEN Executed(Err(d.err), c1.remaining)
    ELSE publish_charged(module, d.val, vm_status,
                         charge_intrinsic_gas(c1.remaining, Len(module.blob)))

\* The closure of publish_module after the first charge c1, from the
\* deserialized module id d.
publish_deserialized(module, vm_status, c1, d) ==
    IF ~d.ok THEN Executed(Err(d.err), c1.remaining)
    ELSE IF module.sender # d.val.address
    THEN Executed(Err(MODULE_ADDRESS_DOES_NOT_MATCH_SENDER), c1.remaining)
    ELSE publish_charged(module, d.val, vm_status,
                         charge_intrinsic_gas(c1.remaining, Len(module.blob)))

\* The execution part of publish_module, from the first charge c1.
publish_execute(module, vm_status, c1) ==
    IF ~c1.ok THEN Executed(Err(c1.err), c1.remaining)
    ELSE publish_deserialized(module, vm_status, c1, deserialize(module.blob))

\* Mutant: the module is written to the store before the transaction runs.
Mvm_publish_module_eager(acc, max_gas_amount, module, vm_status) ==
    handle_vm_result(
        IF deserialize(module.blob).ok
        THEN [acc EXCEPT !.store =
                  Session_publish_module(acc.store, deserialize(module.blob).val,
                                         module.blob)]
        ELSE acc,
        max_gas_amount,
        publish_execute(module, vm_status,
                        charge_intrinsic_gas(max_gas_amount, Len(module.blob))))

\* Mvm::publish_module.
Mvm_publish_module(acc, max_gas_amount, module, vm_status) ==
    handle_vm_result(acc, max_gas_amount,
        publish_execute(module, vm_status,
                        charge_intrinsic_gas(max_gas_amount, Len(module.blob))))

\* Mvm::execute_script: ex is what the interpreter made of the script.
Mvm_execute_script(acc, max_gas_amount, ex) ==
    handle_vm_result(acc, max_gas_amount, ex)

(***************************************************************************)
(* The host bank ledger (the Balances implementation of the test host).    *)
(* A panic leaves the ledger as it was when the panic fired.               *)
(***************************************************************************)
HostOk(ledger) == [panic |-> FALSE, ledger |-> ledger]
HostPanic(ledger) == [panic |-> TRUE, ledger |-> ledger]

SetAmount(ledger, key, amount) == [ledger EXCEPT ![key].amount = amount]

\* BankMock::transfer.
BankMock_transfer(ledger, ticker, from, to, amount) ==
    IF <<ticker, from>> \notin DOMAIN ledger THEN HostPanic(ledger)
    ELSE IF ledger[<<ticker, from>>].amount < amount THEN HostPanic(ledger)
    ELSE LET debited == SetAmount(ledger, <<ticker, from>>,
                                  ledger[<<ticker, from>>].amount - amount)
         IN  IF <<ticker, to>> \notin DOMAIN debited THEN HostPanic(debited)
             ELSE HostOk(SetAmount(debited, <<ticker, to>>,
                                   debited[<<ticker, to>>].amount + amount))

\* BankMock::lock.
BankMock_lock(ledger, ticker, addr, amount) ==
    IF <<ticker, addr>> \notin DOMAIN ledger THEN HostPanic(ledger)
    ELSE IF ~ledger[<<ticker, addr>>].is_lockable THEN HostPanic(ledger)
    ELSE IF ledger[<<ticker, addr>>].amount < amount THEN HostPanic(ledger)
    ELSE HostOk(SetAmount(ledger, <<ticker, addr>>,
                          ledger[<<ticker, addr>>].amount - amount))

\* BankMock::unlock.
BankMock_unlock(ledger, ticker, addr, amount) ==
    IF <<ticker, addr>> \notin DOMAIN ledger THEN HostPanic(ledger)
    ELSE IF ~ledger[<<ticker, addr>>].is_lockable THEN HostPanic(ledger)
    ELSE HostOk(SetAmount(ledger, <<ticker, addr>>,
                          ledger[<<ticker, addr>>].amount + amount))

(***************************************************************************)
(* Inputs.                                                                 *)
(***************************************************************************)
SessionIds == 1..MaxSessions

\* Transaction infos a session is created with.
TxInfos == {None, Some(TxInfo(10, 1000))}

\* BankMock::with_data of the initial state.
InitialLedger ==
    [key \in {<<"USD", A22>>, <<"BTC", A22>>, <<"USD", CORE_CODE_ADDRESS>>} |->
        CASE key = <<"USD", A22>> -> Account(1313, TRUE)
          [] key = <<"BTC", A22>> -> Account(500, FALSE)
          [] OTHER -> Account(0, TRUE)]

HostAmounts == {13}

\* A balance value { coin: T { value: n } } and its layout.
BalanceValue(n) == VStructC(<<VStructC(<<VU128(n)>>)>>)
BalanceLayout == LStruct(<<LStruct(<<LPrim("U128")>>)>>)

ResourceInput(tag, ty, tp, value) == [tag |-> tag, ty |-> ty, tp |-> tp, value |-> value]

\* Resource effects the interpreter delivers: (tag, layout, type, value).
ResourceInputs ==
    << ResourceInput(balance("USD"), BalanceLayout,
                     TyStructInstantiation(IDX_BALANCE, <<TyStruct(IDX_USD)>>),
                     BalanceValue(500)),
       ResourceInput(Lock3Tag, BalanceLayout,
                     TyStructInstantiation(IDX_LOCK3, <<TyStruct(IDX_USD)>>),
                     BalanceValue(500)),
       ResourceInput(StoreU64Tag, LStruct(<<LPrim("U64")>>),
                     TyStruct(IDX_STORE_U64), VStructC(<<VU64(13)>>)),
       ResourceInput(BalanceOf(<<TPrim("U8")>>), BalanceLayout,
                     TyStructInstantiation(IDX_BALANCE, <<TyPrim("U8")>>),
                     BalanceValue(9)),
       ResourceInput(TIMESTAMP_MODULE, LStruct(<<LPrim("U64")>>),
                     TyStruct(IDX_TIMESTAMP), VStructC(<<VU64(99)>>)) >>

\* Transactions the host submits and what the interpreter makes of them.
EventU64Tag == TStruct(StructTag(CORE_CODE_ADDRESS, "Event", "U64", <<>>))
EventGuid == <<71, 85, 73, 68>>
EventU64(seq, n) ==
    Event(EventGuid, seq, EventU64Tag, LStruct(<<LPrim("U64")>>), VStructC(<<VU64(n)>>))
\* An event whose value does not serialize under its layout.
EventBad ==
    Event(EventGuid, 2, EventU64Tag, LStruct(<<LPrim("U8")>>), VStructC(<<VU64(13)>>))

InsertOf(i) == ResourceEffect(ResourceInputs[i], Some(ResourceInputs[i].value))
DeleteOf(i) == ResourceEffect(ResourceInputs[i], None)
\* Inserts whose value does not fit the type: the byte serialization of the
\* first fails, the balance handler of the second rejects the value.
InsertBadStore == ResourceEffect(ResourceInputs[3], Some(VStructC(<<VU64(13), VU64(14)>>)))
InsertBadLock3 == ResourceEffect(ResourceInputs[2], Some(VStructC(<<VU64(500)>>)))

At(addr, vals) == [addr |-> addr, vals |-> vals]

StoreBlob == <<MODULE_MAGIC, CORE_CODE_ADDRESS, 1, 7>>
EventBlob == <<MODULE_MAGIC, A22, 2, 9>>
BadBlob == <<0, CORE_CODE_ADDRESS, 1, 7>>

Script(max_gas_amount, ex) == [gas |-> max_gas_amount, ex |-> ex]

Scripts ==
    << Script(10, Executed(Err("ABORTED"), 4)),
       Script(10, Executed(Ok(TransactionEffects(
           <<At(A22, <<InsertOf(3)>>)>>, <<>>,
           <<EventU64(1, 13), EventU64(2, 14)>>)), 3)),
       Script(10, Executed(Ok(TransactionEffects(
           <<At(CORE_CODE_ADDRESS, <<InsertOf(2), DeleteOf(3)>>),
             At(A22, <<InsertOf(3)>>)>>,
           <<[id |-> ModuleId(CORE_CODE_ADDRESS, "Store"), blob |-> StoreBlob]>>,
           <<EventU64(1, 13)>>)), 2)),
       Script(10, Executed(Ok(TransactionEffects(
           <<At(A22, <<InsertOf(3), InsertBadStore, InsertOf(5)>>)>>, <<>>,
           <<EventU64(1, 13)>>)), 5)),
       Script(10, Executed(Ok(TransactionEffects(
           <<At(A22, <<InsertOf(5)>>)>>, <<>>,
           <<EventU64(1, 13), EventBad, EventU64(3, 15)>>)), 5)),
       Script(10, Executed(Ok(TransactionEffects(
           <<At(CORE_CODE_ADDRESS, <<InsertOf(3), InsertBadLock3>>),
             At(A22, <<InsertOf(3)>>)>>, <<>>,
           <<EventU64(1, 13)>>)), 1)),
       Script(10, Executed(Ok(TransactionEffects(
           <<At(A22, <<DeleteOf(3)>>)>>, <<>>, <<>>)), 6)),
       Script(10, Executed(Ok(TransactionEffects(<<>>, <<>>, <<>>)), 9)),
       Script(10, Executed(Ok(TransactionEffects(
           <<At(CORE_CODE_ADDRESS, <<InsertOf(1)>>)>>, <<>>,
           <<EventU64(2, 14)>>)), 7)) >>

ModuleTxs ==
    << ModuleTx(StoreBlob, CORE_CODE_ADDRESS),
       ModuleTx(StoreBlob, A22),
       ModuleTx(EventBlob, A22),
       ModuleTx(BadBlob, CORE_CODE_ADDRESS) >>

\* The module ids a session looks up.
ModuleIds ==
    << ModuleId(CORE_CODE_ADDRESS, "Store"), ModuleId(A22, "Event"),
       ModuleId(A22, "Store"), ModuleId(CORE_CODE_ADDRESS, "Event") >>

\* Gas limits: below one intrinsic charge, between one and two, above two.
GasAmounts == {1, 6, 10}
VmStatuses == {"EXECUTED", "DUPLICATE_MODULE_NAME"}


\* Values a session is asked to insert under the tag and layout of Lock3<USD>
\* or Store::U64: they fit one of the two, or neither.
InsertValues ==
    << VStructC(<<VU64(13)>>),
       BalanceValue(500),
       VStructC(<<VU64(13), VU64(14)>>),
       VStructC(<<VStructC(<<VU128(5)>>), VU64(1)>>) >>

\* Events a session is asked to write.
EventInputs == <<EventU64(1, 13), EventBad, EventU64(3, 15)>>

\* Handlers and values resolve_balance is applied to: paths that fit the
\* value, end early, go too deep or name a field the struct does not have.
PureHandlers ==
    << Unlocked("USD"),
       Locked(<< <<"USD", <<0, 0>>>> >>),
       Locked(<< <<"USD", <<0>>>>, <<"BTC", <<1, 0>>>> >>),
       Locked(<< <<"USD", <<2>>>> >>),
       Locked(<< <<"USD", <<>>>> >>) >>

PureValues ==
    << BalanceValue(500),
       VStructC(<<VU128(7)>>),
       VStructC(<<VU128(7), VStructC(<<VU128(8)>>)>>),
       VStructC(<<>>),
       VU128(5),
       VU64(5),
       VStructC(<<VStructC(<<VStructC(<<VU128(1)>>)>>)>>),
       VVecC(<<VStructC(<<VU128(3)>>), VStructC(<<VU128(4)>>)>>) >>

\* Tags and types find_balance is applied to: the loaded resources, and
\* types whose parameter index is beyond the tag's type parameters.
WalkInputs ==
    << [tag |-> ResourceInputs[1].tag, tp |-> ResourceInputs[1].tp],
       [tag |-> ResourceInputs[2].tag, tp |-> ResourceInputs[2].tp],
       [tag |-> ResourceInputs[3].tag, tp |-> ResourceInputs[3].tp],
       [tag |-> ResourceInputs[4].tag, tp |-> ResourceInputs[4].tp],
       [tag |-> Lock3Tag, tp |-> TyStructInstantiation(IDX_T, <<TyParam(1)>>)],
       [tag |-> Lock3Tag, tp |-> TyParam(3)],
       [tag |-> StructTag(CORE_CODE_ADDRESS, "BalanceTest", "Lock3", <<>>),
        tp |-> TyStructInstantiation(IDX_LOCK3, <<TyParam(0)>>)] >>

\* Types the walker is applied to, and the type-parameter tags it is given.
PairTag == StructTag(CORE_CODE_ADDRESS, "BalanceTest", "Pair", <<>>)

CoinOf(param) == TyStructInstantiation(IDX_T, <<param>>)

WalkTypes ==
    << TyStructInstantiation(IDX_LOCK3, <<TyStruct(IDX_USD)>>),
       TyStruct(IDX_PAIR),
       TyStructInstantiation(IDX_VAULT, <<TyStruct(IDX_USD)>>),
       TyStructInstantiation(IDX_VAULT, <<TyParam(0)>>),
       CoinOf(TyStruct(IDX_USD)),
       CoinOf(TyParam(0)),
       CoinOf(TyPrim("Bool")),
       CoinOf(TyPrim("U8")),
       CoinOf(TyPrim("U64")),
       CoinOf(TyPrim("U128")),
       CoinOf(TyPrim("Address")),
       CoinOf(TyPrim("Signer")),
       CoinOf(TyVector(TyPrim("U8"))),
       CoinOf(CoinOf(TyStruct(IDX_USD))),
       TyVector(CoinOf(TyStruct(IDX_USD))),
       TyVector(TyStruct(IDX_PAIR)),
       TyVector(TyVector(TyStruct(IDX_PAIR))),
       TyParam(0),
       TyStructInstantiation(IDX_WRAP, <<TyStruct(IDX_PAIR)>>),
       TyStruct(IDX_STORE_U64),
       TyPrim("U64"),
       TyStructInstantiation(IDX_HOLDER, <<TyStruct(IDX_USD)>>) >>

WalkTagLists ==
    << <<>>,
       <<USD>>,
       <<BTC>>,
       <<TPrim("U8")>>,
       <<TStruct(Lock3Tag)>>,
       <<TStruct(PairTag), USD>> >>

\* Handlers and values with vectors on the path: a vector of coins, a Vault
\* and a vector of vectors of Pairs.
CoinValue(n) == VStructC(<<VU128(n)>>)
PairValue(a, b) == VStructC(<<CoinValue(a), VU64(1), CoinValue(b)>>)

VectorInputs ==
    << [handler |-> Locked(<< <<"USD", <<0>>>> >>),
        val |-> VVecC(<<CoinValue(3), CoinValue(4), CoinValue(5)>>)],
       [handler |-> Locked(<< <<"USD", <<0, 0>>>>, <<"USD", <<2, 0, 0>>>> >>),
        val |-> VStructC(<<VVecC(<<CoinValue(7), CoinValue(6)>>), VU64(1),
                           VStructC(<<CoinValue(9)>>)>>)],
       [handler |-> Locked(<< <<"USD", <<0, 0>>>>, <<"BTC", <<2, 0>>>> >>),
        val |-> VVecC(<<VVecC(<<PairValue(1, 2), PairValue(3, 4)>>),
                        VVecC(<<PairValue(5, 6)>>)>>)],
       [handler |-> Locked(<< <<"USD", <<0>>>> >>),
        val |-> VVecC(<<>>)],
       [handler |-> Locked(<< <<"USD", <<0>>>> >>),
        val |-> VVecC(<<CoinValue(3), VStructC(<<VU64(4)>>), CoinValue(5)>>)] >>

(***************************************************************************)
(* State.                                                                  *)
(***************************************************************************)
ClosedSession == [open |-> FALSE, info |-> None, balances |-> EmptyMap]
OpenSession(info) == [open |-> TRUE, info |-> info, balances |-> EmptyMap]

\* What the last operation was and what it returned; `hit` tells that a
\* write found its handler in the handler cache; a transaction also leaves
\* the effects it applied, its gas limit and the gas it used.
Last(op, s, addr, tag, input, result, consulted, store_op, handled, handler, dbg) ==
    [op |-> op, session |-> s, addr |-> addr, tag |-> tag, input |-> input,
     result |-> result, consulted |-> consulted, store_op |-> store_op,
     handled |-> handled, handler |-> handler, dbg |-> dbg, hit |-> FALSE,
     applied |-> <<>>, gas |-> 0, gas_used |-> 0, value |-> 0, found |-> <<>>]

NoOp(op, s) == Last(op, s, 0, NoTag, 0, Ok(None), <<>>, "none", FALSE, None, <<>>)

Init ==
    /\ store = EmptyMap
    /\ host = InitialLedger
    /\ handlers = EmptyMap
    /\ \E info \in TxInfos :
          sessions = [s \in SessionIds |->
                         IF s = 1 THEN OpenSession(info) ELSE ClosedSession]
    /\ events = <<>>
    /\ last = NoOp("new", 0)
    /\ steps = 0
    /\ panicked = FALSE

\* The run stops after MaxSteps operations, or at a panic.
Running == ~panicked /\ steps < MaxSteps

(***************************************************************************)
(* Operations.                                                             *)
(***************************************************************************)
\* NodeApi::new_session: a session with an empty balance cache.
NewSession(s, info) ==
    /\ Running
    /\ ~sessions[s].open
    /\ sessions' = [sessions EXCEPT ![s] = OpenSession(info)]
    /\ last' = NoOp("new_session", s)
    /\ steps' = steps + 1
    /\ UNCHANGED <<store, host, handlers, events, panicked>>

\* The session goes out of scope: its balance cache is dropped with it.
DropSession(s) ==
    /\ Running
    /\ sessions[s].open
    /\ sessions' = [sessions EXCEPT ![s] = ClosedSession]
    /\ last' = NoOp("drop_session", s)
    /\ steps' = steps + 1
    /\ UNCHANGED <<store, host, handlers, events, panicked>>

\* Mutant: a read writes the bytes it resolved through to the byte store.
GetResource_write_through(s, address, tag) ==
    /\ Running
    /\ sessions[s].open
    /\ \E r \in {Session_get_resource(sessions[s], store, host, address, tag)} :
           /\ sessions' = [sessions EXCEPT ![s].balances = r.balances]
           /\ store' = IF r.result.ok /\ r.result.val # None
                       THEN RawInsert(store, KeyOf(AccessPath(address, access_vector(tag))),
                                      r.result.val[1])
                       ELSE store
           /\ last' = Last("get_resource", s, address, tag, 0, r.result,
                           r.consulted, "none", FALSE, None, <<>>)
    /\ steps' = steps + 1
    /\ UNCHANGED <<host, handlers, events, panicked>>

\* Mutant: the balance cache is one for all sessions of the bank.
GetResource_shared_cache(s, address, tag) ==
    /\ Running
    /\ sessions[s].open
    /\ \E r \in {Session_get_resource(sessions[s], store, host, address, tag)} :
           /\ sessions' = [t \in SessionIds |->
                              [sessions[t] EXCEPT !.balances = r.balances]]
           /\ last' = Last("get_resource", s, address, tag, 0, r.result,
                           r.consulted, "none", FALSE, None, <<>>)
    /\ steps' = steps + 1
    /\ UNCHANGED <<store, host, handlers, events, panicked>>

GetResource(s, address, tag) ==
    /\ Running
    /\ sessions[s].open
    /\ \E r \in {Session_get_resource(sessions[s], store, host, address, tag)} :
           /\ sessions' = [sessions EXCEPT ![s].balances = r.balances]
           /\ last' = Last("get_resource", s, address, tag, 0, r.result,
                           r.consulted, "none", FALSE, None, <<>>)
    /\ steps' = steps + 1
    /\ UNCHANGED <<store, host, handlers, events, panicked>>

\* Mutant: an insert that recorded balances locks them on the host.
InsertResource_locking(s, address, i) ==
    /\ Running
    /\ sessions[s].open
    /\ \E inp \in {ResourceInputs[i]} :
       \E r \in {Session_insert_resource(store, handlers, address, inp.tag, inp.ty,
                                         inp.tp, inp.value)} :
           /\ store' = r.store
           /\ handlers' = r.cache
           /\ panicked' = (r.st = "panic")
           /\ host' = IF r.dbg = <<>> THEN host
                      ELSE BankMock_lock(host, r.dbg[1].ticker, address,
                                         r.dbg[1].balance).ledger
           /\ last' = [Last("insert_resource", s, address, inp.tag, i,
                            IF r.st = "ok" THEN Ok(None) ELSE Err(r.err),
                            <<>>, r.store_op, r.handled, r.handler, r.dbg)
                          EXCEPT !.hit = r.hit]
    /\ steps' = steps + 1
    /\ UNCHANGED <<sessions, events>>

InsertResource(s, address, i) ==
    /\ Running
    /\ sessions[s].open
    /\ \E inp \in {ResourceInputs[i]} :
       \E r \in {Session_insert_resource(store, handlers, address, inp.tag, inp.ty,
                                         inp.tp, inp.value)} :
           /\ store' = r.store
           /\ handlers' = r.cache
           /\ panicked' = (r.st = "panic")
           /\ last' = [Last("insert_resource", s, address, inp.tag, i,
                            IF r.st = "ok" THEN Ok(None) ELSE Err(r.err),
                            <<>>, r.store_op, r.handled, r.handler, r.dbg)
                          EXCEPT !.hit = r.hit]
    /\ steps' = steps + 1
    /\ UNCHANGED <<host, sessions, events>>

DeleteResource(s, address, i) ==
    /\ Running
    /\ sessions[s].open
    /\ \E inp \in {ResourceInputs[i]} :
       \E r \in {Session_delete_resource(store, handlers, address, inp.tag, inp.ty,
                                         inp.tp)} :
           /\ store' = r.store
           /\ handlers' = r.cache
           /\ panicked' = (r.st = "panic")
           /\ last' = [Last("delete_resource", s, address, inp.tag, i,
                            IF r.st = "ok" THEN Ok(None) ELSE Err(r.err),
                            <<>>, r.store_op, r.handled, r.handler, r.dbg)
                          EXCEPT !.hit = r.hit]
    /\ steps' = steps + 1
    /\ UNCHANGED <<host, sessions, events>>

HostStep(op, r) ==
    /\ host' = r.ledger
    /\ panicked' = r.panic
    /\ last' = NoOp(op, 0)
    /\ steps' = steps + 1
    /\ UNCHANGED <<store, handlers, sessions, events>>

HostTransfer(ticker, from, to, amount) ==
    /\ Running
    /\ HostStep("host_transfer", BankMock_transfer(host, ticker, from, to, amount))

HostLock(ticker, addr, amount) ==
    /\ Running
    /\ HostStep("host_lock", BankMock_lock(host, ticker, addr, amount))

HostUnlock(ticker, addr, amount) ==
    /\ Running
    /\ HostStep("host_unlock", BankMock_unlock(host, ticker, addr, amount))

Next ==
    \/ \E s \in SessionIds, info \in TxInfos : NewSession(s, info)
    \/ \E s \in SessionIds : DropSession(s)
    \/ \E s \in SessionIds, a \in Addresses, tag \in Tags : GetResource(s, a, tag)
    \/ \E s \in SessionIds, a \in Addresses, i \in DOMAIN ResourceInputs :
          InsertResource(s, a, i)
    \/ \E s \in SessionIds, a \in Addresses, i \in DOMAIN ResourceInputs :
          DeleteResource(s, a, i)
    \/ \E t \in Tickers, from \in Addresses, to \in Addresses, n \in HostAmounts :
          HostTransfer(t, from, to, n)
    \/ \E t \in Tickers, a \in Addresses, n \in HostAmounts : HostLock(t, a, n)
    \/ \E t \in Tickers, a \in Addresses, n \in HostAmounts : HostUnlock(t, a, n)

Spec == Init /\ [][Next]_vars

\* Reads of every tag shape, over stores that inserts have filled.
NextProbe ==
    \/ \E s \in SessionIds, info \in TxInfos : NewSession(s, info)
    \/ \E s \in SessionIds, a \in Addresses, tag \in AllTags : GetResource(s, a, tag)
    \/ \E s \in SessionIds, a \in Addresses, i \in DOMAIN ResourceInputs :
          InsertResource(s, a, i)

SpecProbe == Init /\ [][NextProbe]_vars

\* Two sessions on one Bank: the first only inserts, the second only deletes.
NextShared ==
    \/ \E info \in TxInfos : NewSession(2, info)
    \/ \E a \in Addresses, i \in DOMAIN ResourceInputs : InsertResource(1, a, i)
    \/ \E a \in Addresses, i \in DOMAIN ResourceInputs : DeleteResource(2, a, i)

SpecShared == Init /\ [][NextShared]_vars

(***************************************************************************)
(* Transactions: the Mvm opens a session of its own, runs the interpreter  *)
(* and commits the effects.                                                *)
(***************************************************************************)
TxRunning == ~panicked /\ steps < MaxTx

Commit0 == CommitState("ok", "EXECUTED", store, handlers, events, <<>>)

\* The state after a transaction with result r.
Committed(op, i, max_gas_amount, r) ==
    /\ store' = r.commit.store
    /\ handlers' = r.commit.cache
    /\ events' = r.commit.sink
    /\ panicked' = (r.commit.st = "panic")
    /\ last' = [Last(op, 0, 0, NoTag, i,
                     IF r.status_code = "EXECUTED" THEN Ok(None)
                     ELSE Err(r.status_code),
                     <<>>, "none", FALSE, None, <<>>)
                   EXCEPT !.applied = r.commit.applied,
                          !.gas = max_gas_amount,
                          !.gas_used = r.gas_used]
    /\ steps' = steps + 1
    /\ UNCHANGED <<host, sessions>>

ExecuteScript(i) ==
    /\ TxRunning
    /\ \E r \in {Mvm_execute_script(Commit0, Scripts[i].gas, Scripts[i].ex)} :
           Committed("execute_script", i, Scripts[i].gas, r)

PublishModule(i, max_gas_amount, vm_status) ==
    /\ TxRunning
    /\ \E r \in {Mvm_publish_module(Commit0, max_gas_amount, ModuleTxs[i], vm_status)} :
           Committed("publish_module", i, max_gas_amount, r)

\* Mvm::clear: self.vm.clear() empties the interpreter's loader; the handler
\* cache is a field of the bank in node_api, which clear() does not touch.
Mvm_clear(cache) == cache

Clear ==
    /\ TxRunning
    /\ handlers' = Mvm_clear(handlers)
    /\ last' = NoOp("clear", 0)
    /\ steps' = steps + 1
    /\ UNCHANGED <<store, host, sessions, events, panicked>>

\* A module lookup by an open session.
GetModule(s, i) ==
    /\ Running
    /\ sessions[s].open
    /\ last' = Last("get_module", s, ModuleIds[i].address, NoTag, i,
                    Session_get_module(store, ModuleIds[i]),
                    <<>>, "none", FALSE, None, <<>>)
    /\ steps' = steps + 1
    /\ UNCHANGED <<store, host, handlers, sessions, events, panicked>>

NextCommit ==
    \/ \E i \in DOMAIN Scripts : ExecuteScript(i)
    \/ \E s \in SessionIds, i \in DOMAIN ModuleIds : GetModule(s, i)
    \/ \E i \in DOMAIN ModuleTxs, g \in GasAmounts, v \in VmStatuses :
           PublishModule(i, g, v)
    \/ Clear

SpecCommit == Init /\ [][NextCommit]_vars

\* Sessions that only read, over a byte store and an event sink that
\* committed transactions have filled.
NextReads ==
    \/ \E i \in {2, 3} : ExecuteScript(i)
    \/ \E s \in SessionIds, i \in DOMAIN ModuleIds : GetModule(s, i)
    \/ \E s \in SessionIds, a \in Addresses, tag \in Tags : GetResource(s, a, tag)
    \/ \E s \in SessionIds, info \in TxInfos : NewSession(s, info)
    \/ \E s \in SessionIds : DropSession(s)

SpecReads == Init /\ [][NextReads]_vars

\* The handler functions, the event writer and inserts of values that may
\* not fit their layout, applied on their own.
ResolveBalance(h, v) ==
    /\ Running
    /\ \E r \in {resolve_balance(PureHandlers[h], PureValues[v])} :
           /\ panicked' = (r.st = "panic")
           /\ last' = Last("resolve_balance", 0, 0, NoTag, v,
                           CASE r.st = "ok" -> Ok(None)
                             [] r.st = "err" -> Err(INTERNAL_TYPE_ERROR)
                             [] OTHER -> Err("PANIC"),
                           <<>>, "none", FALSE, Some(PureHandlers[h]), r.v)
    /\ steps' = steps + 1
    /\ UNCHANGED <<store, host, handlers, sessions, events>>

FindBalance(i) ==
    /\ Running
    /\ \E r \in {find_balance(WalkInputs[i].tag, WalkInputs[i].tp)} :
           /\ panicked' = r.panic
           /\ last' = Last("find_balance", 0, 0, WalkInputs[i].tag, i,
                           IF r.panic THEN Err("PANIC") ELSE r.res,
                           <<>>, "none", FALSE, r.res.val, <<>>)
    /\ steps' = steps + 1
    /\ UNCHANGED <<store, host, handlers, sessions, events>>

\* Session::insert_resource with a value of InsertValues.
InsertValue(s, address, i, v) ==
    /\ Running
    /\ sessions[s].open
    /\ \E inp \in {ResourceInputs[i]} :
       \E r \in {Session_insert_resource(store, handlers, address, inp.tag, inp.ty,
                                         inp.tp, InsertValues[v])} :
           /\ store' = r.store
           /\ handlers' = r.cache
           /\ panicked' = (r.st = "panic")
           /\ last' = [Last("insert_value", s, address, inp.tag, i,
                            IF r.st = "ok" THEN Ok(None) ELSE Err(r.err),
                            <<>>, r.store_op, r.handled, r.handler, r.dbg)
                          EXCEPT !.hit = r.hit, !.value = v]
    /\ steps' = steps + 1
    /\ UNCHANGED <<host, sessions, events>>

\* Session::write_event.
WriteEvent(s, i) ==
    /\ Running
    /\ sessions[s].open
    /\ \E w \in {write_event(events, EventInputs[i])} :
           /\ events' = w.sink
           /\ last' = Last("write_event", s, 0, NoTag, i,
                           IF w.st = "ok" THEN Ok(None) ELSE Err(w.err),
                           <<>>, "none", FALSE, None, <<>>)
    /\ steps' = steps + 1
    /\ UNCHANGED <<store, host, handlers, sessions, panicked>>

NextPure ==
    \/ \E s \in SessionIds, i \in {2, 3}, v \in DOMAIN InsertValues :
          InsertValue(s, A22, i, v)
    \/ \E s \in SessionIds, i \in DOMAIN EventInputs : WriteEvent(s, i)
    \/ \E h \in DOMAIN PureHandlers, v \in DOMAIN PureValues : ResolveBalance(h, v)
    \/ \E i \in DOMAIN WalkInputs : FindBalance(i)

SpecPure == Init /\ [][NextPure]_vars

\* Two sessions of one bank, opened one after the other, read balances
\* while the host moves funds; sessions end and new ones begin.
InitSessions ==
    /\ store = EmptyMap
    /\ host = InitialLedger
    /\ handlers = EmptyMap
    /\ \E info \in TxInfos : sessions = [s \in SessionIds |-> OpenSession(info)]
    /\ events = <<>>
    /\ last = NoOp("new_session", MaxSessions)
    /\ steps = 0
    /\ panicked = FALSE

NextSessions ==
    \/ \E s \in SessionIds, a \in Addresses, tag \in BalanceTags : GetResource(s, a, tag)
    \/ \E t \in Tickers, from \in Addresses, to \in Addresses, n \in HostAmounts :
          HostTransfer(t, from, to, n)
    \/ \E s \in SessionIds, info \in TxInfos : NewSession(s, info)
    \/ \E s \in SessionIds : DropSession(s)

SpecSessions == InitSessions /\ [][NextSessions]_vars

(***************************************************************************)
(* The host bank ledger on its own: a ledger with two accounts of each     *)
(* ticker, the BTC accounts not lockable, and the three operations that    *)
(* change amounts.                                                         *)
(***************************************************************************)
\* BankMock::with_data of a host with two accounts per ticker.
LedgerOfFour ==
    [key \in {<<"USD", A22>>, <<"USD", CORE_CODE_ADDRESS>>,
              <<"BTC", A22>>, <<"BTC", CORE_CODE_ADDRESS>>} |->
        CASE key = <<"USD", A22>> -> Account(1313, TRUE)
          [] key = <<"USD", CORE_CODE_ADDRESS>> -> Account(0, TRUE)
          [] key = <<"BTC", A22>> -> Account(500, FALSE)
          [] OTHER -> Account(0, FALSE)]

LedgerAmounts == {13, 487}

InitLedger ==
    /\ store = EmptyMap
    /\ handlers = EmptyMap
    /\ host = LedgerOfFour
    /\ sessions = [s \in SessionIds |-> ClosedSession]
    /\ events = <<>>
    /\ panicked = FALSE
    /\ steps = 0
    /\ last = NoOp("init", 0)

NextLedger ==
    \/ \E t \in Tickers, from \in Addresses, to \in Addresses, n \in LedgerAmounts :
          HostTransfer(t, from, to, n)
    \/ \E t \in Tickers, a \in Addresses, n \in LedgerAmounts : HostLock(t, a, n)
    \/ \E t \in Tickers, a \in Addresses, n \in LedgerAmounts : HostUnlock(t, a, n)

SpecLedger == InitLedger /\ [][NextLedger]_vars

(***************************************************************************)
(* The type walker and the extraction of balances from values with         *)
(* vectors, applied on their own.                                          *)
(***************************************************************************)
\* TypeWalker::find_in_type on a type of WalkTypes with the tags of
\* WalkTagLists.
FindInType(i, j) ==
    /\ Running
    /\ \E r \in {find_in_type(WalkTypes[i], WalkTagLists[j])} :
           /\ panicked' = r.panic
           /\ last' = [Last("find_in_type", 0, 0, NoTag, i,
                            IF r.panic THEN Err("PANIC") ELSE Ok(None),
                            <<>>, "none", FALSE, None, <<>>)
                          EXCEPT !.value = j, !.found = r.v]
    /\ steps' = steps + 1
    /\ UNCHANGED <<store, host, handlers, sessions, events>>

\* BalanceHandler::resolve_balance on a handler and value of VectorInputs.
ResolveVector(i) ==
    /\ Running
    /\ \E r \in {resolve_balance(VectorInputs[i].handler, VectorInputs[i].val)} :
           /\ panicked' = (r.st = "panic")
           /\ last' = Last("resolve_vector", 0, 0, NoTag, i,
                           CASE r.st = "ok" -> Ok(None)
                             [] r.st = "err" -> Err(INTERNAL_TYPE_ERROR)
                             [] OTHER -> Err("PANIC"),
                           <<>>, "none", FALSE, Some(VectorInputs[i].handler), r.v)
    /\ steps' = steps + 1
    /\ UNCHANGED <<store, host, handlers, sessions, events>>

NextWalk ==
    \/ \E i \in DOMAIN WalkTypes, j \in DOMAIN WalkTagLists : FindInType(i, j)
    \/ \E i \in DOMAIN VectorInputs : ResolveVector(i)

SpecWalk == Init /\ [][NextWalk]_vars

(***************************************************************************)
(* The operations of a session and whole transactions, while the host      *)
(* moves funds between them.                                               *)
(***************************************************************************)
NextFrame ==
    \/ \E s \in SessionIds, a \in Addresses, tag \in BalanceTags : GetResource(s, a, tag)
    \/ \E s \in SessionIds, a \in Addresses, i \in {1, 2} : InsertResource(s, a, i)
    \/ \E s \in SessionIds, a \in Addresses, i \in {1, 2} : DeleteResource(s, a, i)
    \/ \E s \in SessionIds, i \in DOMAIN EventInputs : WriteEvent(s, i)
    \/ \E i \in {3, 9} : ExecuteScript(i)
    \/ \E i \in {1, 2} : PublishModule(i, 10, "EXECUTED")
    \/ \E t \in Tickers, from \in Addresses, to \in Addresses, n \in HostAmounts :
          HostTransfer(t, from, to, n)

SpecFrame == Init /\ [][NextFrame]_vars

(***************************************************************************)
(* A session reads balances the host does not hold, and the host opens an  *)
(* account a read has just missed.                                         *)
(***************************************************************************)
\* The host's get_balance starts to answer Some for an account it did not
\* hold when the last read asked for it.
HostOpenAccount(ticker, addr, amount) ==
    /\ Running
    /\ last.op = "get_resource"
    /\ last.result = Ok(None)
    /\ last.addr = addr
    /\ last.tag = balance(ticker)
    /\ <<ticker, addr>> \notin DOMAIN host
    /\ host' = MapPut(host, <<ticker, addr>>, Account(amount, TRUE))
    /\ last' = NoOp("host_open", 0)
    /\ steps' = steps + 1
    /\ UNCHANGED <<store, handlers, sessions, events, panicked>>

NextAbsent ==
    \/ \E s \in SessionIds, a \in Addresses, tag \in BalanceTags : GetResource(s, a, tag)
    \/ \E t \in Tickers, a \in Addresses, n \in HostAmounts : HostOpenAccount(t, a, n)
    \/ \E t \in Tickers, from \in Addresses, to \in Addresses, n \in HostAmounts :
          HostTransfer(t, from, to, n)

SpecAbsent == Init /\ [][NextAbsent]_vars

(***************************************************************************)
(* Helpers of the properties.                                              *)
(***************************************************************************)
RECURSIVE LeValue(_)
\* The unsigned integer a little-endian byte string denotes.
LeValue(bytes) ==
    IF bytes = <<>> THEN 0 ELSE Head(bytes) + 256 * LeValue(Tail(bytes))

IsGet == last.op = "get_resource"
IsInsert == last.op = "insert_resource"
IsDelete == last.op = "delete_resource"

\* The ticker a well-formed balance tag names.
TickerOf(tag) == tag.type_params[1].st.name

\* The byte-store key of the resource (address, tag).
ResourceKey(address, tag) == <<address, RESOURCE_TAG, tag>>

ResolverOrder == <<"context", "bank", "store">>

\* What each resolver answers when asked directly in the current state.
DirectAnswer(by, s, address, tag) ==
    CASE by = "context" -> ExecutionContext_resolve(sessions[s].info, address, tag)
      [] by = "bank" -> BankSession_resolve(sessions[s].balances, host, address, tag).rr
      [] OTHER -> Resolved(Ok(RawGet(store, ResourceKey(address, tag))))

(***************************************************************************)
(* C1: get_resource asks the chain context, then the bank, then the byte   *)
(* store; a resolver is asked only when all before it were unresolved, and *)
(* the result is the answer of the first resolver that resolves, which is  *)
(* what that resolver answers when queried directly.                       *)
(***************************************************************************)
C1_ResolverChain ==
    IsGet =>
        LET c == last.consulted
            n == Len(c)
        IN  /\ n \in 1..3
            /\ \A i \in 1..n : c[i].by = ResolverOrder[i]
            /\ \A i \in 1..(n - 1) : c[i].rr = Unresolved
            /\ c[n].rr # Unresolved
            /\ last.result = c[n].rr[1]
            /\ \A i \in 1..n :
                  c[i].rr = DirectAnswer(c[i].by, last.session, last.addr, last.tag)

\* A read that went down the whole chain and found the resource in the store.
C1_Witness ==
    /\ IsGet
    /\ Len(last.consulted) = 3
    /\ last.result.ok
    /\ last.result.val # None

(***************************************************************************)
(* Helpers of the balance properties.                                      *)
(***************************************************************************)
\* The read, insert or delete the step into the next state performs.
GetStep == last'.op = "get_resource"
WriteStep == last'.op \in {"insert_resource", "delete_resource"}

\* The account session s has cached for (address, ticker), if any.
Cached(s, address, ticker) == CacheGet(sessions[s].balances, address, ticker)

\* The 16-byte result of a balance read that found the amount.
AmountBytes(amount) == Ok(Some(to_le_bytes(amount, U128_BYTES)))

\* The amount at value path [0,0] of the resource the last insert carried.
InsertedAmount == ResourceInputs[last.input].value.vals[1].vals[1].v

\* The bank holds `amount` for (address, ticker): in the cache of session s
\* or in the host ledger.
BankHolds(s, address, ticker, amount) ==
    \/ /\ Cached(s, address, ticker) # None
       /\ Cached(s, address, ticker)[1].amount = amount
    \/ /\ get_balance(host, ticker, address) # None
       /\ get_balance(host, ticker, address)[1].amount = amount

(***************************************************************************)
(* C2, as stated: a read of Balance<currency> at A returns the 16-byte     *)
(* little-endian amount of the host's account (currency, A) exactly when   *)
(* the host has that account, and None otherwise.                          *)
(***************************************************************************)
C2_HostAmountAsStated ==
    (IsGet /\ is_balance(last.tag)) =>
        LET acct == get_balance(host, TickerOf(last.tag), last.addr)
        IN  IF acct # None
            THEN last.result = AmountBytes(acct[1].amount)
            ELSE last.result = Ok(None)

(***************************************************************************)
(* C2, amended: a read of Balance<currency> at A returns the 16-byte       *)
(* little-endian amount the session has cached for (A, currency) when it   *)
(* has cached one; otherwise it returns the amount of the host's account   *)
(* when the host has one, and None when it has none.                       *)
(***************************************************************************)
C2_CachedElseHostAmount ==
    [][(GetStep /\ is_balance(last'.tag)) =>
          LET cached == Cached(last'.session, last'.addr, TickerOf(last'.tag))
              acct == get_balance(host, TickerOf(last'.tag), last'.addr)
          IN  IF cached # None
              THEN last'.result = AmountBytes(cached[1].amount)
              ELSE IF acct # None
              THEN last'.result = AmountBytes(acct[1].amount)
              ELSE last'.result = Ok(None)]_vars

\* A balance read that returned an amount the host no longer holds.
C2_Witness ==
    /\ IsGet
    /\ is_balance(last.tag)
    /\ last.result.ok
    /\ last.result.val # None
    /\ get_balance(host, TickerOf(last.tag), last.addr) # None
    /\ LeValue(last.result.val[1]) #
          get_balance(host, TickerOf(last.tag), last.addr)[1].amount

(***************************************************************************)
(* C3, as stated: a read of any tag that is no balance tag returns what    *)
(* the byte store holds at the key of (A, T).                              *)
(***************************************************************************)
C3_StoreReadAsStated ==
    (IsGet /\ ~is_balance(last.tag)) =>
        last.result = Ok(MapGet(store, ResourceKey(last.addr, last.tag)))

(***************************************************************************)
(* C3, amended: a read of a tag that is no balance tag, other than a read  *)
(* of the timestamp or block tag at the core address, returns what the     *)
(* byte store holds at the key of (A, T).                                  *)
(***************************************************************************)
C3_StoreRead ==
    (/\ IsGet
     /\ ~is_balance(last.tag)
     /\ ~(last.addr = CORE_CODE_ADDRESS /\ last.tag \in {TIMESTAMP_MODULE, BLOCK_MODULE})) =>
        last.result = Ok(MapGet(store, ResourceKey(last.addr, last.tag)))

\* A read of the timestamp tag outside the core address that found the blob
\* an insert put in the store.
C3_Witness ==
    /\ IsGet
    /\ last.tag = TIMESTAMP_MODULE
    /\ last.addr = A22
    /\ last.result.ok
    /\ last.result.val # None
    /\ last.result.val = MapGet(store, ResourceKey(A22, TIMESTAMP_MODULE))

(***************************************************************************)
(* C4: is_balance holds exactly for the tags core::Account::Balance with   *)
(* one type parameter that is a struct of the core Dfinance module; for    *)
(* every other tag the bank answers Unresolved, and a read of a tag named  *)
(* core::Account::Balance with any other type parameters goes on to the    *)
(* byte store and returns what it holds.                                   *)
(***************************************************************************)
BalanceShape(tag) ==
    /\ tag.address = CORE_CODE_ADDRESS
    /\ tag.module = "Account"
    /\ tag.name = "Balance"
    /\ Len(tag.type_params) = 1
    /\ tag.type_params[1].k = "Struct"
    /\ tag.type_params[1].st.address = CORE_CODE_ADDRESS
    /\ tag.type_params[1].st.module = "Dfinance"

NamedBalance(tag) ==
    /\ tag.address = CORE_CODE_ADDRESS
    /\ tag.module = "Account"
    /\ tag.name = "Balance"

C4_IsBalanceShape ==
    IsGet =>
        /\ is_balance(last.tag) <=> BalanceShape(last.tag)
        /\ BalanceShape(last.tag) =>
              /\ Len(last.consulted) = 2
              /\ last.consulted[2].rr # Unresolved
        /\ (~BalanceShape(last.tag) /\ Len(last.consulted) >= 2) =>
              /\ last.consulted[2].by = "bank"
              /\ last.consulted[2].rr = Unresolved
              /\ Len(last.consulted) = 3
              /\ last.consulted[3].by = "store"
        /\ (~BalanceShape(last.tag) /\ NamedBalance(last.tag)) =>
              /\ Len(last.consulted) = 3
              /\ last.result = Ok(MapGet(store, ResourceKey(last.addr, last.tag)))

\* A read of Balance<u8> that fell through to the byte store and found the
\* blob an insert put there.
C4_Witness ==
    /\ IsGet
    /\ last.tag = BalanceOf(<<TPrim("U8")>>)
    /\ Len(last.consulted) = 3
    /\ last.consulted[2].rr = Unresolved
    /\ last.result.ok
    /\ last.result.val # None

(***************************************************************************)
(* C5: asked for the timestamp tag (the block tag) at the core address,    *)
(* the chain context answers the 8 little-endian bytes of info.timestamp   *)
(* (info.block_height) when the session has a TxInfo and None when it has  *)
(* none; for every other tag and every other address it is Unresolved.     *)
(***************************************************************************)
ChainAnswer(rr, info, field) ==
    IF info = None
    THEN rr = Resolved(Ok(None))
    ELSE /\ rr # Unresolved
         /\ rr[1].ok
         /\ rr[1].val # None
         /\ Len(rr[1].val[1]) = 8
         /\ LeValue(rr[1].val[1]) = info[1][field]

C5_ChainContext ==
    IsGet =>
        LET rr == last.consulted[1].rr
            info == sessions[last.session].info
        IN  /\ last.consulted[1].by = "context"
            /\ IF last.addr = CORE_CODE_ADDRESS /\ last.tag = TIMESTAMP_MODULE
               THEN ChainAnswer(rr, info, "timestamp")
               ELSE IF last.addr = CORE_CODE_ADDRESS /\ last.tag = BLOCK_MODULE
               THEN ChainAnswer(rr, info, "block_height")
               ELSE rr = Unresolved

\* A read of the block height in a session that has a TxInfo.
C5_Witness ==
    /\ IsGet
    /\ last.addr = CORE_CODE_ADDRESS
    /\ last.tag = BLOCK_MODULE
    /\ sessions[last.session].info # None
    /\ last.result = Ok(Some(<<232, 3, 0, 0, 0, 0, 0, 0>>))

(***************************************************************************)
(* C6, as stated: every insert or delete of a resource that succeeds       *)
(* affects exactly one sink: either the byte store is called, or the bank  *)
(* (the session's balances or the host ledger) changes, never both and     *)
(* never neither.                                                          *)
(***************************************************************************)
C6_ExactlyOneSink ==
    [][(WriteStep /\ last'.result.ok) =>
          ((last'.store_op # "none") # (host' # host \/ sessions' # sessions))]_vars

(***************************************************************************)
(* C7: within a session, the first read of a balance (A, ticker) the host  *)
(* holds puts the host's account in the session cache; a cached account    *)
(* stays as it is for as long as the session lives, whatever the host      *)
(* does; and a read returns the amount of the account in the cache.        *)
(***************************************************************************)
C7_FirstReadCaches ==
    [][/\ (GetStep /\ is_balance(last'.tag)) =>
            LET s == last'.session
                a == last'.addr
                t == TickerOf(last'.tag)
                acct == get_balance(host, t, a)
                after == CacheGet(sessions'[s].balances, a, t)
            IN  /\ (Cached(s, a, t) = None /\ acct # None) => after = acct
                /\ after # None => last'.result = AmountBytes(after[1].amount)
       /\ \A s \in SessionIds, a \in Addresses, t \in Tickers :
            (sessions[s].open /\ sessions'[s].open /\ Cached(s, a, t) # None) =>
                CacheGet(sessions'[s].balances, a, t) = Cached(s, a, t)]_vars

\* A later read that returned the cached amount after the host's changed.
C7_Witness ==
    /\ IsGet
    /\ is_balance(last.tag)
    /\ Cached(last.session, last.addr, TickerOf(last.tag)) # None
    /\ Cached(last.session, last.addr, TickerOf(last.tag)) #
          get_balance(host, TickerOf(last.tag), last.addr)
    /\ last.result =
          AmountBytes(Cached(last.session, last.addr, TickerOf(last.tag))[1].amount)

(***************************************************************************)
(* C8, as stated: after insert_resource has written Balance<ticker> with   *)
(* amount v at A in a session, get_resource(A, Balance<ticker>) in that    *)
(* session returns the 16-byte encoding of v.                              *)
(***************************************************************************)
C8_ReadYourWrites ==
    (IsInsert /\ last.result.ok /\ is_balance(last.tag)) =>
        Session_get_resource(sessions[last.session], store, host,
                             last.addr, last.tag).result = AmountBytes(InsertedAmount)

(***************************************************************************)
(* C9, as stated: an insert the Unlocked handler takes reads the u128 at   *)
(* value path [0,0], leaves the byte store alone, and makes the bank hold  *)
(* that amount for (A, ticker).                                            *)
(***************************************************************************)
C9_UnlockedInsertUpdatesLedger ==
    (/\ IsInsert
     /\ last.result.ok
     /\ last.handler # None
     /\ is_unlocked(last.handler[1])) =>
        /\ last.dbg = <<Balance(last.handler[1].ticker, InsertedAmount, FALSE)>>
        /\ last.store_op = "none"
        /\ BankHolds(last.session, last.addr, last.handler[1].ticker, InsertedAmount)

(***************************************************************************)
(* C10, as stated: an insert the Locked handler takes writes the           *)
(* serialized resource to the byte store at (A, tag), and the bank holds   *)
(* every balance nested in the value as a locked (ticker, amount) entry.   *)
(***************************************************************************)
C10_LockedInsertRecordsAndStores ==
    (/\ IsInsert
     /\ last.result.ok
     /\ last.handler # None
     /\ ~is_unlocked(last.handler[1])) =>
        /\ last.store_op = "insert"
        /\ MapGet(store, ResourceKey(last.addr, last.tag)) =
              simple_serialize(ResourceInputs[last.input].value,
                               ResourceInputs[last.input].ty)
        /\ last.dbg # <<>>
        /\ \A i \in DOMAIN last.dbg :
              /\ last.dbg[i].locked
              /\ BankHolds(last.session, last.addr, last.dbg[i].ticker,
                           last.dbg[i].balance)

(***************************************************************************)
(* Helpers of the write properties.                                        *)
(***************************************************************************)
IsWrite == IsInsert \/ IsDelete

\* The handler of the last write is Unlocked.
UnlockedWrite == last.handler # None /\ is_unlocked(last.handler[1])

\* The handler of the last write is Locked.
LockedWrite == last.handler # None /\ ~is_unlocked(last.handler[1])

(***************************************************************************)
(* C11: delete_resource removes the byte-store key (address,               *)
(* tag.access_vector()) exactly when it succeeds with a handler that is    *)
(* not Unlocked (Locked or none); with an Unlocked handler, and when it    *)
(* fails, the byte store is left as it was.                                *)
(***************************************************************************)
C11_DeleteUnlessUnlocked ==
    [][last'.op = "delete_resource" =>
          IF /\ last'.result.ok
             /\ ~(last'.handler # None /\ is_unlocked(last'.handler[1]))
          THEN /\ last'.store_op = "remove"
               /\ store' = MapRemove(store, ResourceKey(last'.addr, last'.tag))
          ELSE /\ last'.store_op = "none"
               /\ store' = store]_vars

\* A delete with the Locked handler of an earlier write that called the
\* byte store's remove: the key is gone.
C11_Witness ==
    /\ IsDelete
    /\ last.result.ok
    /\ LockedWrite
    /\ last.hit
    /\ last.store_op = "remove"
    /\ ResourceKey(last.addr, last.tag) \notin DOMAIN store

(***************************************************************************)
(* C12, as stated: after delete_resource of a balance tag (handler         *)
(* Unlocked) at A, the bank's state for (A, ticker) shows the removal: the *)
(* amount the session has cached, or else the host holds, is zero or       *)
(* absent.                                                                 *)
(***************************************************************************)
C12_DeleteZeroesBalance ==
    (IsDelete /\ last.result.ok /\ UnlockedWrite) =>
        LET t == last.handler[1].ticker
            cached == Cached(last.session, last.addr, t)
            acct == get_balance(host, t, last.addr)
        IN  IF cached # None
            THEN cached[1].amount = 0
            ELSE acct = None \/ acct[1].amount = 0

(***************************************************************************)
(* C13: once a write has obtained the handler H of a tag T (a handler or   *)
(* none), the handler cache holds H for T from then on, and every later    *)
(* write on T, in any session, takes H from the cache without computing    *)
(* it again.                                                               *)
(***************************************************************************)
C13_HandlerMemo ==
    [][/\ \A T \in DOMAIN handlers :
             T \in DOMAIN handlers' /\ handlers'[T] = handlers[T]
       /\ WriteStep =>
             /\ last'.hit <=> last'.tag \in DOMAIN handlers
             /\ last'.hit => (last'.handler = handlers[last'.tag] /\ handlers' = handlers)
             /\ last'.result.ok =>
                   /\ last'.tag \in DOMAIN handlers'
                   /\ handlers'[last'.tag] = last'.handler]_vars

\* A write by the second session that took a Locked handler from the cache.
C13_Witness ==
    /\ IsWrite
    /\ last.session = 2
    /\ last.hit
    /\ LockedWrite
    /\ handlers[last.tag] = last.handler

(***************************************************************************)
(* C14: the handler cache is one for all sessions of the Bank and is       *)
(* written once per tag: only a write adds to it, only the entry of the    *)
(* tag written and only when the cache does not hold that tag; an entry is *)
(* never replaced, and a tag one session stored is a cache hit for the     *)
(* other.                                                                  *)
(***************************************************************************)
C14_SharedWriteOnce ==
    [][/\ \A T \in DOMAIN handlers :
             T \in DOMAIN handlers' /\ handlers'[T] = handlers[T]
       /\ ~WriteStep => handlers' = handlers
       /\ WriteStep =>
             /\ DOMAIN handlers' \subseteq DOMAIN handlers \cup {last'.tag}
             /\ last'.tag \in DOMAIN handlers => (last'.hit /\ handlers' = handlers)]_vars

\* Session 2 deletes Lock3<USD> with a cache hit while the byte store holds
\* a Lock3<USD> blob, which only an insert of session 1 can have put there:
\* one of the two sessions used the entry the other had stored.
C14_Witness ==
    /\ IsDelete
    /\ last.session = 2
    /\ last.tag = Lock3Tag
    /\ last.hit
    /\ \E a \in Addresses : ResourceKey(a, Lock3Tag) \in DOMAIN store

(***************************************************************************)
(* C15: the handler of a tag T is Unlocked(ticker), with ticker the struct *)
(* name of T's type parameter, when is_balance(T); otherwise it is         *)
(* Locked(paths) when the walker finds a non-empty list of balance paths   *)
(* in T's loaded type; otherwise there is no handler.                      *)
(***************************************************************************)
C15_HandlerConstruction ==
    (IsWrite /\ last.result.ok) =>
        /\ IF is_balance(last.tag)
           THEN last.handler = Some(Unlocked(last.tag.type_params[1].st.name))
           ELSE LET found == find_in_type(ResourceInputs[last.input].tp,
                                          last.tag.type_params)
                IN  IF found.v # <<>>
                    THEN last.handler = Some(Locked(found.v))
                    ELSE last.handler = None
        /\ last.tag = balance("USD") => last.handler = Some(Unlocked("USD"))
        /\ last.tag = Lock3Tag => last.handler = Some(Locked(<<<<"USD", <<0, 0>>>>>>))
        /\ last.tag = StoreU64Tag => last.handler = None

\* The first write of Lock3<USD>: its handler was computed, not cached.
C15_Witness ==
    /\ IsWrite
    /\ last.result.ok
    /\ ~last.hit
    /\ last.tag = Lock3Tag
    /\ last.handler = Some(Locked(<<<<"USD", <<0, 0>>>>>>))

(***************************************************************************)
(* Transactions and their commit.                                          *)
(***************************************************************************)
IsScript == last.op = "execute_script"
IsPublish == last.op = "publish_module"
IsTx == IsScript \/ IsPublish

\* The effects the interpreter handed to the commit of the last script, if
\* it ended without error.
ScriptEffects == Scripts[last.input].ex.result.val
ScriptCommits == IsScript /\ Scripts[last.input].ex.result.ok

RECURSIVE ResourceList(_, _)
\* The resource effects in the order delivered: address by address, and
\* within an address one after the other.
ResourceList(resources, i) ==
    IF i > Len(resources) THEN <<>>
    ELSE [k \in 1..Len(resources[i].vals) |->
             [kind |-> "resource", addr |-> resources[i].addr,
              eff |-> resources[i].vals[k],
              label |-> ResourceLabel(resources[i].addr, resources[i].vals[k])]]
         \o ResourceList(resources, i + 1)

\* All effects of a commit in the stated order: resources, modules, events.
EffectList(e) ==
    ResourceList(e.resources, 1)
    \o [k \in 1..Len(e.modules) |->
           [kind |-> "module", addr |-> e.modules[k].id.address,
            eff |-> e.modules[k], label |-> ModuleLabel(e.modules[k].id)]]
    \o [k \in 1..Len(e.events) |->
           [kind |-> "event", addr |-> 0,
            eff |-> e.events[k], label |-> EventLabel(e.events[k])]]

Labels(list) == [k \in DOMAIN list |-> list[k].label]

IsPrefix(p, q) == Len(p) <= Len(q) /\ p = SubSeq(q, 1, Len(p))

KindsOf(applied) == {applied[k].kind : k \in DOMAIN applied}

\* C16: the effects of one commit are applied in this order: the resource
\* deletes and inserts, address by address and within an address in the
\* order delivered, then the module publishes, then the events.  The log of
\* applied effects is a prefix of that order, and all of it when the
\* transaction ends EXECUTED.
C16_CommitOrder ==
    ScriptCommits =>
        /\ IsPrefix(last.applied, Labels(EffectList(ScriptEffects)))
        /\ last.result.ok => last.applied = Labels(EffectList(ScriptEffects))

\* A commit that applied an insert and a delete at one address, an insert
\* at another, a module and an event.
C16_Witness ==
    /\ ScriptCommits
    /\ last.result.ok
    /\ KindsOf(last.applied) = {"insert", "delete", "module", "event"}
    /\ \E j, k \in DOMAIN last.applied :
          /\ j < k
          /\ last.applied[j].kind = "delete"
          /\ last.applied[k].kind = "insert"
          /\ last.applied[j].at # last.applied[k].at

IsEventLabel(l) == l.kind = "event"

\* What the host handler must receive for an event: guid, seq and tag as
\* emitted, and the bytes of the value.
EventTuple(e) == <<e.guid, e.seq, e.tag, simple_serialize(e.value, e.layout)[1]>>

\* The tuples of the first n events of a commit.
Delivered(evs, n) == [k \in 1..n |-> EventTuple(evs[k])]

\* C17: the events of one transaction reach the host event handler in the
\* order of their emission, after the events of earlier transactions, each
\* as (guid, seq, tag, bytes) with guid, seq and tag unchanged and the bytes
\* the little-endian encoding of the emitted value; all of them when the
\* transaction ends EXECUTED, and otherwise the ones before the first
\* effect that failed.  A transaction without effects delivers nothing.
C17_EventsInOrder ==
    [][ /\ (IsTx' /\ ~ScriptCommits') => events' = events
        /\ ScriptCommits' =>
              \E n \in 0..Len(ScriptEffects'.events) :
                  /\ n = Len(SelectSeq(last'.applied, IsEventLabel))
                  /\ last'.result.ok => n = Len(ScriptEffects'.events)
                  /\ events' = events \o Delivered(ScriptEffects'.events, n)
                  /\ \A k \in 1..n :
                        /\ Len(events'[Len(events) + k][4]) = U64_BYTES
                        /\ LeValue(events'[Len(events) + k][4])
                              = ScriptEffects'.events[k].value.vals[1].v
      ]_vars

\* The handler holds the events of an earlier transaction followed by the
\* two events of the last one, with sequence numbers 1 and 2.
C17_Witness ==
    /\ ScriptCommits
    /\ last.result.ok
    /\ Len(ScriptEffects.events) = 2
    /\ Len(events) > 2
    /\ events[Len(events) - 1][2] = 1
    /\ events[Len(events)][2] = 2
    /\ events[Len(events)][1] = EventGuid
    /\ events[Len(events)][3] = EventU64Tag
    /\ LeValue(events[Len(events)][4]) = 14

Failed == IsTx /\ ~last.result.ok

\* C18: whenever a transaction ends Failed (publish_module or execute_script
\* returns a status other than EXECUTED), none of its effects has been
\* applied to the byte store: the store is the one before the transaction.
C18_FailedLeavesStore ==
    [][Failed' => store' = store]_vars

EmptyCommit == CommitState("ok", "EXECUTED", EmptyMap, EmptyMap, <<>>, <<>>)

\* The outcome of one effect applied on its own.
Alone(x) ==
    CASE x.kind = "resource" -> apply_resource(EmptyCommit, x.addr, x.eff)
      [] x.kind = "module" -> EmptyCommit
      [] OTHER -> after_event(EmptyCommit, write_event(<<>>, x.eff), x.label)

\* The position of the first effect of the list that fails, 0 if none does.
FirstFailing(list) ==
    IF \A k \in DOMAIN list : Alone(list[k]).st = "ok" THEN 0
    ELSE CHOOSE k \in DOMAIN list :
             /\ Alone(list[k]).st # "ok"
             /\ \A j \in 1..(k - 1) : Alone(list[j]).st = "ok"

\* The byte-store key a resource or module effect writes.
EffectKey(x) ==
    IF x.kind = "module"
    THEN KeyOf(AccessPath(x.eff.id.address, module_access_vector(x.eff.id)))
    ELSE KeyOf(AccessPath(x.addr, access_vector(x.eff.tag)))

\* What C19 asks of a commit over `list` whose first failing effect is f.
StopsAt(list, f) ==
    /\ last'.result = Err(Alone(list[f]).err)
    /\ last'.applied = Labels(SubSeq(list, 1, f - 1))
    /\ Len(events') = Len(events) + Len(SelectSeq(SubSeq(list, 1, f - 1),
                                                  LAMBDA x : x.kind = "event"))
    /\ \A k \in f..Len(list) :
          (/\ list[k].kind # "event"
           /\ \A j \in 1..(f - 1) :
                 list[j].kind = "event" \/ EffectKey(list[j]) # EffectKey(list[k]))
          => MapGet(store', EffectKey(list[k])) = MapGet(store, EffectKey(list[k]))

\* C19: an error raised while the commit applies the effects stops the
\* commit at that effect and is reported unchanged: the status is the
\* status of the first effect that fails, the effects before it are the
\* ones applied, and no effect from it on is applied: the byte-store keys
\* only such effects write keep what they held, and no event after it is
\* delivered.
C19_CommitStopsAtFirstError ==
    [][ (ScriptCommits' /\ FirstFailing(EffectList(ScriptEffects')) > 0) =>
            StopsAt(EffectList(ScriptEffects'),
                    FirstFailing(EffectList(ScriptEffects'))) ]_vars

\* The bank rejected the second effect of a commit: the status is its
\* INTERNAL_TYPE_ERROR, the first insert is in the byte store and the
\* insert at 0x22 that came after the error is not.
C19_Witness ==
    /\ ScriptCommits
    /\ FirstFailing(EffectList(ScriptEffects)) = 2
    /\ last.result = Err(INTERNAL_TYPE_ERROR)
    /\ Len(last.applied) = 1
    /\ MapGet(store, KeyOf(AccessPath(CORE_CODE_ADDRESS, access_vector(StoreU64Tag))))
          # None
    /\ MapGet(store, KeyOf(AccessPath(A22, access_vector(StoreU64Tag)))) = None
    /\ events = <<>>

\* The blob of module transaction i is a module that declares an address
\* other than the sender.
DeclaresOtherAddress(i) ==
    /\ ModuleTxs[i].blob[1] = MODULE_MAGIC
    /\ ModuleTxs[i].blob[2] # ModuleTxs[i].sender

\* The gas limit of the last transaction covers one intrinsic charge.
CoversIntrinsic ==
    last.gas >= calculate_intrinsic_gas(Len(ModuleTxs[last.input].blob))

\* C20 as stated: publish_module with a blob whose declared self-address
\* differs from sender returns MODULE_ADDRESS_DOES_NOT_MATCH_SENDER and
\* leaves the byte store unchanged.
C20_MismatchAsStated ==
    [][ (IsPublish' /\ DeclaresOtherAddress(last'.input)) =>
            /\ last'.result = Err(MODULE_ADDRESS_DOES_NOT_MATCH_SENDER)
            /\ store' = store ]_vars

\* C20, amended: publish_module with a blob whose declared self-address
\* differs from sender publishes nothing, the byte store and the events are
\* unchanged; it returns MODULE_ADDRESS_DOES_NOT_MATCH_SENDER when the gas
\* limit covers the intrinsic charge for the blob, which is taken before the
\* blob is looked at, and OUT_OF_GAS when it does not.
C20_MismatchPublishesNothing ==
    [][ (IsPublish' /\ DeclaresOtherAddress(last'.input)) =>
            /\ store' = store
            /\ events' = events
            /\ last'.applied = <<>>
            /\ CoversIntrinsic' =>
                  last'.result = Err(MODULE_ADDRESS_DOES_NOT_MATCH_SENDER)
            /\ ~CoversIntrinsic' => last'.result = Err(OUT_OF_GAS) ]_vars

\* A module of 0x1 sent by 0x22 with gas for both charges was refused,
\* after an earlier transaction had published a module.
C20_Witness ==
    /\ IsPublish
    /\ DeclaresOtherAddress(last.input)
    /\ last.gas = 10
    /\ last.result = Err(MODULE_ADDRESS_DOES_NOT_MATCH_SENDER)
    /\ \E i \in DOMAIN ModuleTxs :
          MapGet(store, KeyOf(AccessPath(ModuleTxs[i].sender,
                     module_access_vector(ModuleId(ModuleTxs[i].sender, "Store")))))
             = Some(ModuleTxs[i].blob)

(***************************************************************************)
(* Round trips through the byte store.                                     *)
(***************************************************************************)
IsGetModule == last.op = "get_module"

\* The modules the last transaction published, as (id, blob).
PublishedModules ==
    IF IsPublish /\ last.result.ok
    THEN <<[id |-> ModuleId(ModuleTxs[last.input].blob[2],
                            ModuleNames[ModuleTxs[last.input].blob[3]]),
            blob |-> ModuleTxs[last.input].blob]>>
    ELSE IF ScriptCommits /\ "module" \in KindsOf(last.applied)
    THEN ScriptEffects.modules
    ELSE <<>>

\* C21: after a module blob is published for module id M, get_module(M)
\* returns exactly that blob, on every session over the byte store, until a
\* transaction publishes M again: a step that publishes M makes
\* get_module(M) the published blob, any other step leaves get_module(M) as
\* it was, and a lookup returns it.
C21_PublishThenGetModule ==
    [][ /\ \A k \in DOMAIN PublishedModules' :
              Session_get_module(store', PublishedModules'[k].id)
                  = Ok(Some(PublishedModules'[k].blob))
        /\ \A i \in DOMAIN ModuleIds :
              (\A k \in DOMAIN PublishedModules' :
                   PublishedModules'[k].id # ModuleIds[i])
              => Session_get_module(store', ModuleIds[i])
                     = Session_get_module(store, ModuleIds[i])
        /\ IsGetModule' =>
              last'.result = Session_get_module(store', ModuleIds[last'.input])
      ]_vars

\* A lookup of 0x1::Store returned the blob an earlier publish_module stored.
C21_Witness ==
    /\ IsGetModule
    /\ ModuleIds[last.input] = ModuleId(CORE_CODE_ADDRESS, "Store")
    /\ last.result = Ok(Some(StoreBlob))

\* The last operation inserted a resource that is no balance.
InsertedNonBalance == IsInsert /\ last.result.ok /\ ~is_balance(last.tag)

\* The bytes of the value the last insert was given.
InsertedBytes ==
    simple_serialize(ResourceInputs[last.input].value, ResourceInputs[last.input].ty)

\* What get_resource of the inserting session returns for the resource of
\* the last operation.
ReadBack ==
    Session_get_resource(sessions[last.session], store, host, last.addr, last.tag).result

\* C22 as stated: after insert_resource of a non-balance resource with
\* value V and layout L at (A, T), get_resource(A, T) returns serialize(V, L).
C22_InsertThenGetAsStated ==
    InsertedNonBalance => ReadBack = Ok(InsertedBytes)

\* C22, amended: after insert_resource of a non-balance resource with value
\* V and layout L at (A, T), other than the timestamp or block tag at the
\* core address, get_resource(A, T) returns serialize(V, L), and the byte
\* store holds these bytes at the key of (A, T); for the timestamp and block
\* tags at the core address the store holds them too, but the read is
\* answered by the chain context.
C22_InsertThenGet ==
    InsertedNonBalance =>
        /\ InsertedBytes # None
        /\ MapGet(store, ResourceKey(last.addr, last.tag)) = InsertedBytes
        /\ IF last.addr = CORE_CODE_ADDRESS /\ last.tag \in {TIMESTAMP_MODULE, BLOCK_MODULE}
           THEN ReadBack = ExecutionContext_resolve(sessions[last.session].info,
                                                    last.addr, last.tag)[1]
           ELSE ReadBack = Ok(InsertedBytes)

\* A read of Store::U64 at 0x22 that returned the 8 bytes of the 13 an
\* insert had written.
C22_Witness ==
    /\ IsGet
    /\ last.tag = StoreU64Tag
    /\ last.addr = A22
    /\ last.result.ok
    /\ last.result.val # None
    /\ Len(last.result.val[1]) = U64_BYTES
    /\ LeValue(last.result.val[1]) = 13

(***************************************************************************)
(* Sessions that only read.                                                *)
(***************************************************************************)
IsRead == last.op \in {"get_module", "get_resource"}
IsDrop == last.op = "drop_session"

\* C23: a session that is dropped before commit persists nothing:
\* get_module and get_resource, in any number and order, and the drop
\* itself leave the byte store, the host bank ledger, the event sink and
\* the handler cache unchanged, and the dropped session holds nothing.
C23_ReadsPersistNothing ==
    [][ /\ (IsRead' \/ IsDrop') =>
              /\ store' = store
              /\ host' = host
              /\ events' = events
              /\ handlers' = handlers
        /\ IsDrop' => sessions'[last'.session] = ClosedSession
      ]_vars

\* A balance read that filled the session's cache, over a store and an
\* event sink an earlier commit had written to.
C23_Witness ==
    /\ IsGet
    /\ last.result.ok
    /\ last.result.val # None
    /\ sessions[last.session].balances # EmptyMap
    /\ store # EmptyMap
    /\ events # <<>>

\* What the host answers now for the balance the step reads.
HostNow == get_balance(host, TickerOf(last'.tag), last'.addr)

\* C24: the balance cache belongs to one session and ends with it: a
\* session begins and ends with an empty cache, a read changes the cache of
\* the reading session only, and a read of (A, ticker) the reading session
\* has not cached returns the host's current amount, or None without a
\* host account, whatever other or earlier sessions have cached.
C24_CacheEndsWithSession ==
    [][ /\ last'.op \in {"new_session", "drop_session"} =>
              sessions'[last'.session].balances = EmptyMap
        /\ GetStep =>
              \A t \in SessionIds \ {last'.session} : sessions'[t] = sessions[t]
        /\ (/\ GetStep
            /\ is_balance(last'.tag)
            /\ Cached(last'.session, last'.addr, TickerOf(last'.tag)) = None) =>
              last'.result = IF HostNow = None THEN Ok(None)
                             ELSE AmountBytes(HostNow[1].amount)
      ]_vars

\* The first read of a balance in one session returned the host's current
\* amount while another session holds a different amount cached for it.
C24_Witness ==
    /\ IsGet
    /\ is_balance(last.tag)
    /\ get_balance(host, TickerOf(last.tag), last.addr) # None
    /\ last.result =
          AmountBytes(get_balance(host, TickerOf(last.tag), last.addr)[1].amount)
    /\ \E t \in SessionIds \ {last.session} :
          /\ Cached(t, last.addr, TickerOf(last.tag)) # None
          /\ Cached(t, last.addr, TickerOf(last.tag))[1].amount
                # get_balance(host, TickerOf(last.tag), last.addr)[1].amount

(***************************************************************************)
(* C25, as stated: Vm.clear() drops the internal caches: after clear() the *)
(* balance-handler cache holds no entry.                                   *)
(***************************************************************************)
C25_ClearEmptiesHandlerCache ==
    last.op = "clear" => handlers = EmptyMap

(***************************************************************************)
(* Error handling.                                                         *)
(***************************************************************************)
\* Account::Balance<p> of the core address with a primitive p.
PrimitiveBalance(tag) ==
    /\ tag.address = CORE_CODE_ADDRESS
    /\ tag.module = ACCOUNT_MODULE
    /\ tag.name = BALANCE_STRUCT
    /\ Len(tag.type_params) = 1
    /\ tag.type_params[1].k \in {"Bool", "U8", "U64", "U128", "Address", "Signer"}

IsResolveBalance == last.op = "resolve_balance"
IsFindBalance == last.op = "find_balance"

\* C27, as stated: for every handler, field path and value resolve_balance
\* returns the list of amounts or INTERNAL_TYPE_ERROR, and the type walker
\* returns; neither panics.
C27_NeverPanics ==
    (IsResolveBalance \/ IsFindBalance) =>
        /\ ~panicked
        /\ IsResolveBalance =>
              last.result.ok \/ last.result = Err(INTERNAL_TYPE_ERROR)

IsWriteEvent == last.op = "write_event"

\* C28: write_event serializes the event value against its layout; when
\* the serialization fails it returns UNKNOWN_INVARIANT_VIOLATION_ERROR and
\* the host event handler is not called; otherwise it returns Ok and the
\* handler is called exactly once, with the event's guid, seq and tag and
\* the serialized bytes.
C28_WriteEvent ==
    [][ IsWriteEvent' =>
          IF simple_serialize(EventInputs[last'.input].value,
                              EventInputs[last'.input].layout) = None
          THEN /\ last'.result = Err(UNKNOWN_INVARIANT_VIOLATION_ERROR)
               /\ events' = events
          ELSE /\ last'.result = Ok(None)
               /\ Len(events') = Len(events) + 1
               /\ SubSeq(events', 1, Len(events)) = events
               /\ events'[Len(events')] = EventTuple(EventInputs[last'.input])
               /\ LeValue(events'[Len(events')][4])
                     = EventInputs[last'.input].value.vals[1].v
      ]_vars

\* An event that does not serialize was refused after one event had been
\* delivered, and the handler still holds that one event only.
C28_Witness ==
    /\ IsWriteEvent
    /\ last.result = Err(UNKNOWN_INVARIANT_VIOLATION_ERROR)
    /\ Len(events) = 1
    /\ events[1][2] = 1

IsInsertValue == last.op = "insert_value"

\* What C29 asks of an insert of value val under (tag, layout) of inp at the
\* key, when the bank's handler returned h.
SerializeOrFail(h, blob, key) ==
    (h.st = "ok" /\ ~h.handled) =>
        IF blob = None
        THEN /\ last'.result = Err(UNKNOWN_INVARIANT_VIOLATION_ERROR)
             /\ store' = store
        ELSE /\ last'.result = Ok(None)
             /\ store' = MapPut(store, key, blob[1])

\* C29: when insert_resource is not handled as Unlocked (the bank's handler
\* returned Ok(false)) and the value fails to serialize against its layout,
\* it returns UNKNOWN_INVARIANT_VIOLATION_ERROR and the byte store is
\* unchanged; when the serialization succeeds the blob is inserted at the
\* key of (address, tag.access_vector()).
C29_InsertSerializes ==
    [][ IsInsertValue' =>
          SerializeOrFail(
              handle_insert_balance(handlers, last'.addr, last'.tag,
                                    ResourceInputs[last'.input].ty,
                                    ResourceInputs[last'.input].tp,
                                    InsertValues[last'.value]),
              simple_serialize(InsertValues[last'.value],
                               ResourceInputs[last'.input].ty),
              ResourceKey(last'.addr, last'.tag)) ]_vars

\* An insert under Lock3<USD> whose Locked handler found the amount, but
\* whose value has a field the layout does not have: it was refused, and the
\* store still holds the blob of an earlier insert at that key.
C29_Witness ==
    /\ IsInsertValue
    /\ last.tag = Lock3Tag
    /\ last.result = Err(UNKNOWN_INVARIANT_VIOLATION_ERROR)
    /\ last.handler # None
    /\ last.dbg # <<>>
    /\ MapGet(store, ResourceKey(last.addr, last.tag))
          = simple_serialize(BalanceValue(500), BalanceLayout)

\* The accounts of the ledger that are not lockable.
NotLockable == {key \in DOMAIN host : ~host[key].is_lockable}

\* C30: in every reachable state of the host bank ledger the amount of an
\* account is decremented only by an operation on an account whose
\* is_lockable flag is true, and a lock or unlock of a non-lockable account
\* is fatal and leaves every amount unchanged.
C30_DecrementOnlyLockable ==
    [][ /\ \A key \in DOMAIN host :
              host'[key].amount < host[key].amount => host[key].is_lockable
        /\ \A key \in NotLockable, n \in LedgerAmounts :
              /\ BankMock_lock(host, key[1], key[2], n) = HostPanic(host)
              /\ BankMock_unlock(host, key[1], key[2], n) = HostPanic(host) ]_vars

IsFindInType == last.op = "find_in_type"

\* The type and the tags of the last walk.
WalkedType == WalkTypes[last.input]
WalkedTags == WalkTagLists[last.value]

IsCoinType(tp) ==
    /\ tp.k = "StructInstantiation"
    /\ is_coin(struct_at(tp.idx))
    /\ Len(tp.params) = 1

\* The walk goes through the fields of a struct.
IsStructWalk(tp) == tp.k \in {"Struct", "StructInstantiation"} /\ ~IsCoinType(tp)

\* The tags the fields of a struct are walked with: those of the
\* instantiation when its parameters are closed, else the tags of the walk.
FieldTags(tp, tp_tags) ==
    IF tp.k = "StructInstantiation" /\ struct_gidx_to_type_tag(tp.idx, tp.params) # None
    THEN struct_gidx_to_type_tag(tp.idx, tp.params)[1]
    ELSE tp_tags

HeadIs(f, pair) == pair[2] # <<>> /\ pair[2][1] = f

\* The pairs whose path begins with field f, without that first index.
UnderField(found, f) ==
    LET sel == SelectSeq(found, LAMBDA pair : HeadIs(f, pair))
    IN  [k \in DOMAIN sel |-> <<sel[k][1], Tail(sel[k][2])>>]

\* C31: for a struct type the walker returns, for each field in index
\* order, every balance path found in that field with the field's index
\* prepended; for Lock3<USD> { inner: Coin<USD> } it returns exactly
\* [(USD, [0, 0])].
C31_StructWalk ==
    (IsFindInType /\ ~panicked) =>
        /\ IsStructWalk(WalkedType) =>
              LET fields == struct_at(WalkedType.idx).fields
                  found == last.found
              IN  /\ \A k \in DOMAIN found :
                         /\ found[k][2] # <<>>
                         /\ found[k][2][1] \in 0..(Len(fields) - 1)
                  /\ \A k \in 1..(Len(found) - 1) :
                         found[k][2][1] <= found[k + 1][2][1]
                  /\ \A f \in 0..(Len(fields) - 1) :
                         UnderField(found, f)
                            = find_in_type(fields[f + 1],
                                           FieldTags(WalkedType, WalkedTags)).v
        /\ (WalkedType = ResourceInputs[2].tp /\ WalkedTags = Lock3Tag.type_params) =>
              last.found = << <<"USD", <<0, 0>>>> >>

\* The walk of Vault<USD> found a balance under its first and under its
\* third field, the second one two structs deep.
C31_Witness ==
    /\ IsFindInType
    /\ WalkedType = TyStructInstantiation(IDX_VAULT, <<TyStruct(IDX_USD)>>)
    /\ last.found = << <<"USD", <<0, 0>>>>, <<"USD", <<2, 0, 0>>>> >>

\* The keyword of a primitive type.
Keyword(k) ==
    CASE k = "Bool" -> "bool"
      [] k = "U8" -> "u8"
      [] k = "U64" -> "u64"
      [] k = "U128" -> "u128"
      [] k = "Address" -> "address"
      [] k = "Signer" -> "signer"
      [] k = "Vector" -> "vector"

\* The ticker C32 states for a coin over param, walked with tp_tags.
StatedTicker(param, tp_tags) ==
    IF param.k \in {"Struct", "StructInstantiation"}
    THEN LoaderStructs[param.idx].name
    ELSE IF param.k = "TyParam"
    THEN IF tp_tags[param.idx + 1].k = "Struct"
         THEN tp_tags[param.idx + 1].st.name
         ELSE "_"
    ELSE Keyword(param.k)

VaultOfParam == TyStructInstantiation(IDX_VAULT, <<TyParam(0)>>)

\* A type parameter is bound when the tags hold one at its index.
IsBound(param, tp_tags) == param.k = "TyParam" => param.idx + 1 \in DOMAIN tp_tags

\* C32: at an instantiation of the canonical coin struct Dfinance::T with
\* exactly one type parameter the walker emits (ticker, [0]) and does not
\* recurse further; the ticker is the parameter's struct name when it is a
\* struct, the name of the struct tag a type parameter is bound to, "_" when
\* the type parameter is bound to a non-struct, and the primitive keyword
\* otherwise.  The coins reached inside Vault<C> carry the same ticker.
C32_CoinTicker ==
    (IsFindInType /\ ~panicked) =>
        /\ (IsCoinType(WalkedType) /\ IsBound(WalkedType.params[1], WalkedTags)) =>
              last.found = << <<StatedTicker(WalkedType.params[1], WalkedTags), <<0>>>> >>
        /\ (WalkedType = VaultOfParam /\ IsBound(TyParam(0), WalkedTags)) =>
              /\ Len(last.found) = 2
              /\ \A k \in DOMAIN last.found :
                    last.found[k][1] = StatedTicker(TyParam(0), WalkedTags)

\* A coin over a type parameter that the tag binds to u8: the ticker is "_".
C32_Witness ==
    /\ IsFindInType
    /\ WalkedType = CoinOf(TyParam(0))
    /\ WalkedTags = <<TPrim("U8")>>
    /\ last.found = << <<"_", <<0>>>> >>

IsResolveVector == last.op = "resolve_vector"

RECURSIVE StatedAmounts(_, _)
RECURSIVE StatedOfElements(_, _, _)
\* The amounts C33 states for a path in a well-shaped value: a vector takes
\* no index of the path and gives the amounts of its elements, in element
\* order; a struct takes the first index.
StatedAmounts(path, val) ==
    CASE val.k = "VecC" -> StatedOfElements(path, val.vals, 1)
      [] val.k = "StructC" -> StatedAmounts(Tail(path), val.vals[Head(path) + 1])
      [] OTHER -> <<val.v>>

StatedOfElements(path, elems, k) ==
    IF k > Len(elems) THEN <<>>
    ELSE StatedAmounts(path, elems[k]) \o StatedOfElements(path, elems, k + 1)

RECURSIVE StatedBalances(_, _, _)
StatedBalances(paths, val, k) ==
    IF k > Len(paths) THEN <<>>
    ELSE LET amounts == StatedAmounts(paths[k][2], val)
         IN  [n \in DOMAIN amounts |-> Balance(paths[k][1], amounts[n], TRUE)]
                \o StatedBalances(paths, val, k + 1)

\* C33: a vector contributes no index to a balance path: the walker
\* returns for vector<E> what it returns for E, and resolve_balance on a
\* value with a vector on the path applies the rest of the path to every
\* element and returns one amount per element, in element order.
C33_VectorsAreTransparent ==
    /\ (IsFindInType /\ ~panicked /\ WalkedType.k = "Vector") =>
          /\ last.found = find_in_type(WalkedType.e, WalkedTags).v
          /\ WalkedType = TyVector(CoinOf(TyStruct(IDX_USD))) =>
                last.found = << <<"USD", <<0>>>> >>
    /\ (IsResolveVector /\ last.result.ok) =>
          /\ last.dbg = StatedBalances(VectorInputs[last.input].handler.paths,
                                       VectorInputs[last.input].val, 1)
          /\ (/\ VectorInputs[last.input].val.k = "VecC"
              /\ \A n \in DOMAIN VectorInputs[last.input].val.vals :
                    VectorInputs[last.input].val.vals[n].k = "StructC") =>
                Len(last.dbg) = Len(VectorInputs[last.input].handler.paths)
                                   * Len(VectorInputs[last.input].val.vals)

\* The balances of a vector of two vectors of Pairs: three USD amounts in
\* element order, then three BTC amounts.
C33_Witness ==
    /\ IsResolveVector
    /\ last.input = 3
    /\ last.result.ok
    /\ [k \in DOMAIN last.dbg |-> last.dbg[k].balance] = <<1, 3, 5, 2, 4, 6>>

\* The walk is the one find_balance makes for a loaded resource type: a
\* struct type without open type parameters, walked with the type
\* parameters of its own tag.
IsLoadedWalk ==
    /\ IsFindInType
    /\ WalkedType.k \in {"Struct", "StructInstantiation"}
    /\ type_to_type_tag(WalkedType) # None
    /\ WalkedTags = type_to_type_tag(WalkedType)[1].st.type_params

\* C34: the type walker terminates on every loaded type whose struct
\* definitions are acyclic, returning a finite list of paths.
C34_WalkReturns ==
    IsLoadedWalk => (~panicked /\ last.result.ok)

\* The operations of a session and the two transactions built on them.
SessionOps ==
    {"get_resource", "insert_resource", "delete_resource", "write_event",
     "publish_module", "execute_script"}

\* C35: no session operation (get_resource, insert_resource,
\* delete_resource, publish_module, write_event) and no transaction calls
\* transfer, lock or unlock on the host: the host bank ledger is the same
\* after the operation as before it.
C35_LedgerUntouched ==
    [][ last'.op \in SessionOps => host' = host ]_vars

\* An insert under Lock3<USD> that recorded the 500 USD it holds and was
\* stored, on a ledger the host had changed before: the ledger is still the
\* changed one and the account holds what the host left there.
C35_Witness ==
    /\ IsInsert
    /\ LockedWrite
    /\ last.result.ok
    /\ last.dbg # <<>>
    /\ host # InitialLedger
    /\ ~panicked

\* The last transaction's execution ended in an error: the interpreter
\* failed the script, or the publication was refused (the commit of a
\* module cannot fail, so a refused publication failed before it).
ExecutionFailed ==
    \/ IsScript /\ ~Scripts[last.input].ex.result.ok
    \/ IsPublish /\ ~last.result.ok

\* C36: when the execution result is an error the commit path is not
\* entered: no resource is inserted or deleted, no module is published, no
\* event is delivered and no handler is added to the handler cache.
C36_ErrorCommitsNothing ==
    [][ ExecutionFailed' =>
            /\ ~last'.result.ok
            /\ last'.applied = <<>>
            /\ store' = store
            /\ events' = events
            /\ handlers' = handlers ]_vars

\* A script the interpreter aborted, after a transaction that had stored
\* resources, cached a handler and delivered an event.
C36_Witness ==
    /\ ExecutionFailed
    /\ IsScript
    /\ last.result = Err("ABORTED")
    /\ store # EmptyMap
    /\ handlers # EmptyMap
    /\ events # <<>>

\* What the execution of the last transaction handed to handle_vm_result,
\* for a status the interpreter gives a publication.
ExecutionOf(vm_status) ==
    IF IsScript THEN Scripts[last.input].ex
    ELSE publish_execute(ModuleTxs[last.input], vm_status,
                         charge_intrinsic_gas(last.gas,
                                              Len(ModuleTxs[last.input].blob)))

\* Every effect of the execution succeeds when applied.
CommitSucceeds(ex) == FirstFailing(EffectList(ex.result.val)) = 0

\* The status and the gas C37 states for the execution ex.
StatedResult(ex) ==
    /\ last.result.ok <=> (ex.result.ok /\ CommitSucceeds(ex))
    /\ last.gas_used = last.gas - ex.remaining
    /\ last.gas_used \in 0..last.gas

\* C37: publish_module and execute_script return EXECUTED if and only if
\* the execution succeeded and every commit step succeeded; in every outcome
\* gas_used is max_gas_amount minus the gas remaining after execution, so it
\* never exceeds max_gas_amount and the commit does not change it.
C37_StatusAndGas ==
    (IsTx /\ ~panicked) =>
        /\ IsScript => StatedResult(ExecutionOf("EXECUTED"))
        /\ IsPublish =>
              \E vm_status \in VmStatuses : StatedResult(ExecutionOf(vm_status))

\* A script that executed and left 5 of 10 gas units, whose commit stopped
\* at its second effect: the status is the commit's error and gas_used is 5.
C37_Witness ==
    /\ IsScript
    /\ ~panicked
    /\ Scripts[last.input].ex.result.ok
    /\ last.result = Err(UNKNOWN_INVARIANT_VIOLATION_ERROR)
    /\ Len(last.applied) = 1
    /\ last.gas = 10
    /\ last.gas_used = 5

\* C38: the session balance cache stores only present accounts: a read of a
\* balance the host does not hold returns None and caches nothing, so a
\* later read of the same (A, ticker) in the same session asks the host
\* again and returns the amount if the host then holds the account.
C38_AbsentNotCached ==
    [][ (GetStep /\ is_balance(last'.tag)
            /\ Cached(last'.session, last'.addr, TickerOf(last'.tag)) = None) =>
          LET acct == get_balance(host, TickerOf(last'.tag), last'.addr)
          IN  IF acct = None
              THEN /\ last'.result = Ok(None)
                   /\ sessions'[last'.session].balances
                         = sessions[last'.session].balances
              ELSE /\ last'.result = AmountBytes(acct[1].amount)
                   /\ CacheGet(sessions'[last'.session].balances, last'.addr,
                               TickerOf(last'.tag)) = acct ]_vars

\* Session 1 read BTC at 0x1 and got the 13 units of an account the host
\* opened only after a read had found it absent.
C38_Witness ==
    /\ IsGet
    /\ last.session = 1
    /\ last.tag = balance("BTC")
    /\ last.addr = CORE_CODE_ADDRESS
    /\ <<"BTC", CORE_CODE_ADDRESS>> \notin DOMAIN InitialLedger
    /\ last.result = AmountBytes(13)
    /\ CacheGet(sessions[1].balances, CORE_CODE_ADDRESS, "BTC") = Some(Account(13, TRUE))

\* An answer of the bank resolver that is no error: Unresolved, None or 16
\* bytes.
BankAnswer(rr) ==
    \/ rr = Unresolved
    \/ /\ rr # Unresolved
       /\ rr[1].ok
       /\ rr[1].val # None => Len(rr[1].val[1]) = U128_BYTES

\* C39: the bank resolver never yields an error: for every address and tag
\* BankSession::resolve returns Unresolved, Resolved(Ok(None)) or
\* Resolved(Ok(Some(16 bytes))), and find_balance never returns an error.
C39_BankNeverFails ==
    /\ IsGet => \A k \in DOMAIN last.consulted :
                    last.consulted[k].by = "bank" => BankAnswer(last.consulted[k].rr)
    /\ \A s \in SessionIds, a \in Addresses, tag \in AllTags :
          BankAnswer(BankSession_resolve(sessions[s].balances, host, a, tag).rr)
    /\ (IsInsert /\ ~panicked) => last.result # Err(INTERNAL_TYPE_ERROR)
    /\ \A tag \in AllTags, i \in DOMAIN ResourceInputs :
          find_balance(tag, ResourceInputs[i].tp).res.ok

\* A read of Balance<vector<u8>>, a tag with the name of a balance: the bank
\* left it Unresolved and the byte store answered.
C39_Witness ==
    /\ IsGet
    /\ last.tag = BalanceOf(<<TVector(TPrim("U8"))>>)
    /\ Len(last.consulted) = 3
    /\ last.consulted[2] = [by |-> "bank", rr |-> Unresolved]
    /\ last.result.ok

\* The intrinsic cost of the blob of the last publication.
IntrinsicCost == calculate_intrinsic_gas(Len(ModuleTxs[last.input].blob))

\* C40: publish_module charges intrinsic gas for the blob size exactly once
\* per invocation, whether or not the sender check passes: when the gas
\* limit covers that charge, the gas used is the cost of the blob.
C40_ChargedOnce ==
    (IsPublish /\ last.gas >= IntrinsicCost) => last.gas_used = IntrinsicCost

====
